---- MODULE Spec2Model ----
(***************************************************************************)
(* Approval scan engine of address-approval-checker: the batched basic     *)
(* checker (checkApprovals) and the advanced checker                       *)
(* (findAndCheckApprovals), as one state machine.                          *)
(***************************************************************************)
EXTENDS Integers, Sequences, FiniteSets, TLC

(***************************************************************************)
(* uint256 values (ethers BigInt results).  A value is NumLimbs limbs of   *)
(* LimbBits bits, most significant limb first: 16 * 16 = 256 bits.         *)
(***************************************************************************)
NumLimbs == 16
LimbBase == 65536

Limbs == 1..NumLimbs

\* a value below LimbBase
Small(n) == [i \in Limbs |-> IF i = NumLimbs THEN n ELSE 0]

\* ethers.getBigInt(0)
Zero == Small(0)

\* ethers.MaxUint256 = 2^256 - 1
MaxUint256 == [i \in Limbs |-> LimbBase - 1]

\* 2^255
Pow255 == [i \in Limbs |-> IF i = 1 THEN LimbBase \div 2 ELSE 0]

\* 2^256 - 2
MaxMinus1 == [i \in Limbs |-> IF i = NumLimbs THEN LimbBase - 2 ELSE LimbBase - 1]

\* BigInt comparison a > b
Gt(a, b) ==
  \E i \in Limbs : a[i] > b[i] /\ \A j \in 1..(i - 1) : a[j] = b[j]

\* quotient of the long division of a by 10, limb by limb; carry is the
\* remainder coming from the more significant limbs
RECURSIVE DivLimbs(_, _, _)
DivLimbs(a, i, carry) ==
  IF i > NumLimbs THEN << >>
  ELSE LET cur == carry * LimbBase + a[i]
       IN  << cur \div 10 >> \o DivLimbs(a, i + 1, cur % 10)

RECURSIVE ModLimbs(_, _, _)
ModLimbs(a, i, carry) ==
  IF i > NumLimbs THEN carry
  ELSE ModLimbs(a, i + 1, (carry * LimbBase + a[i]) % 10)

Div10(a) == DivLimbs(a, 1, 0)
Mod10(a) == ModLimbs(a, 1, 0)

\* the decimal digits of a, most significant first
RECURSIVE DecDigits(_)
DecDigits(a) ==
  IF a = Zero THEN << >> ELSE DecDigits(Div10(a)) \o << Mod10(a) >>

Decimal(a) == IF a = Zero THEN << 0 >> ELSE DecDigits(a)


(***************************************************************************)
(* Inputs and the outside world                                            *)
(***************************************************************************)
\* concurrency limit of a wave
batchSize == 3

\* bound: the largest number of work items of a run
MaxTasks == 6

\* bound: the number of scenarios of the outside world
NumEnvs == 12

WalletNames == << "w1", "w2", "w3", "w4", "w5", "w6", "w7" >>
TokenNames == << "t1", "t2", "t3", "t4", "t5", "t6", "t7" >>
SpenderNames == << "s1", "s2", "s3", "s4", "s5", "s6", "s7" >>

Idx(names, x) == CHOOSE i \in 1..Len(names) : names[i] = x

\* the k-th element of a cyclic table
Cyc(table, k) == table[(k % Len(table)) + 1]

\* a price: null, or a number
Null == [null |-> TRUE, val |-> 0]
Num(p) == [null |-> FALSE, val |-> p]

\* the outcome of an external call: a value, or a thrown error
Ok(v) == [ok |-> TRUE, val |-> v]
Err(v) == [ok |-> FALSE, val |-> v]

\* lists read from the command line or a file: n distinct entries, or
\* n - 1 distinct entries followed by the first entry once more
ListChoices(names, n) ==
  { SubSeq(names, 1, n) } \cup
  (IF n >= 2 THEN { SubSeq(names, 1, n - 1) \o << names[1] >> } ELSE {})

Lists(names) == UNION { ListChoices(names, n) : n \in 1..MaxTasks }

\* the price column of the token file, per scenario and token
PriceInputs == << Null, Num(2), Null >>
TokenInfo(e, t) == [address |-> t, price |-> Cyc(PriceInputs, e + Idx(TokenNames, t))]

\* what the chain answers, per scenario
AllowanceAnswers ==
  << Ok(MaxUint256), Ok(MaxMinus1), Ok(Pow255), Ok(Small(3)), Ok(Zero),
     Ok(Small(7)), Err(Zero), Ok(Small(3)), Err(Zero) >>
BalanceAnswers == << Ok(Small(5)), Err(Zero), Ok(MaxUint256), Ok(Zero) >>
SymbolAnswers == << Ok("USDT"), Ok("WETH"), Err(""), Ok("DAI"), Ok("WETH") >>
DecimalsAnswers == << Ok(6), Ok(18), Ok(18), Err(0) >>
EventsAnswers ==
  << Ok(<< "s1", "s2", "s1" >>), Err(<< >>), Ok(<< >>), Ok(<< "s2" >>),
     Ok(<< "s3", "s1", "s3" >>) >>
BlockAnswers == << Ok(5), Ok(5), Ok(5), Ok(5), Ok(5), Err(0) >>
LookbackInputs == << 8, 3 >>

\* the uint256 values the chain answers with, and their decimal strings,
\* converted once
UintValues ==
  { Zero } \cup { AllowanceAnswers[i].val : i \in DOMAIN AllowanceAnswers }
           \cup { BalanceAnswers[i].val : i \in DOMAIN BalanceAnswers }
DecimalTable == [v \in UintValues |-> Decimal(v)]

\* BigInt.prototype.toString()
BigIntToString(a) == IF a \in UintValues THEN DecimalTable[a] ELSE Decimal(a)

\* tokenContract.allowance(address, spender)
AllowanceOf(e, w, t, s) ==
  Cyc(AllowanceAnswers,
      e + 2 * Idx(WalletNames, w) + 3 * Idx(TokenNames, t) + Idx(SpenderNames, s))

\* tokenContract.balanceOf(address)
BalanceOf(e, w, t) ==
  Cyc(BalanceAnswers, e + Idx(WalletNames, w) + Idx(TokenNames, t))

\* tokenContract.symbol(), tokenContract.decimals()
SymbolOf(e, t) == Cyc(SymbolAnswers, e + Idx(TokenNames, t))
DecimalsOf(e, t) == Cyc(DecimalsAnswers, e + Idx(TokenNames, t))

\* tokenContract.queryFilter(filter, startBlock, currentBlock)
EventsOf(e, w, t) ==
  Cyc(EventsAnswers, e + Idx(WalletNames, w) + 2 * Idx(TokenNames, t))

\* provider.getBlockNumber()
BlockNumberOf(e) == Cyc(BlockAnswers, e)

\* whether new ethers.Contract(tokenAddress, ...) throws
ContractThrowTable == << FALSE, FALSE, FALSE, TRUE, FALSE >>
ContractThrows(e, t) == Cyc(ContractThrowTable, e + Idx(TokenNames, t))

\* whether tokenContract.filters.Approval(address) throws
FilterThrowTable == << FALSE, FALSE, TRUE, FALSE, FALSE, FALSE, FALSE >>
FilterThrows(e, w, t) ==
  Cyc(FilterThrowTable, e + Idx(WalletNames, w) + 3 * Idx(TokenNames, t))


(***************************************************************************)
(* Pure parts of the scan                                                  *)
(***************************************************************************)
StableSymbols == { "USDT", "USDC", "DAI", "BUSD", "TUSD", "USDK", "GUSD" }

\* the placeholder metadata of a token whose symbol or decimals cannot be read
UnknownSymbol == "unknown"
DefaultDecimals == 18

\* a variant that lets the price inferred from the symbol win over the
\* caller's price
ResolveTokenInferringFirst(tokenInfo, sym, dec) ==
  IF sym.ok /\ dec.ok
  THEN [symbol |-> sym.val, decimals |-> dec.val,
        price |-> IF sym.val \in StableSymbols THEN Num(1) ELSE tokenInfo.price]
  ELSE [symbol |-> UnknownSymbol, decimals |-> DefaultDecimals,
        price |-> tokenInfo.price]

\* a variant that keeps what was read when only one of the two reads fails
ResolveTokenKeepingPart(tokenInfo, sym, dec) ==
  [symbol |-> IF sym.ok THEN sym.val ELSE UnknownSymbol,
   decimals |-> IF dec.ok THEN dec.val ELSE DefaultDecimals,
   price |-> IF sym.ok /\ tokenInfo.price = Null
             THEN (IF sym.val \in StableSymbols THEN Num(1) ELSE Null)
             ELSE tokenInfo.price]

\* token metadata from the two reads and the caller's price
ResolveToken(tokenInfo, sym, dec) ==
  IF sym.ok /\ dec.ok
  THEN [symbol |-> sym.val, decimals |-> dec.val,
        price |-> IF tokenInfo.price = Null
                  THEN (IF sym.val \in StableSymbols THEN Num(1) ELSE Null)
                  ELSE tokenInfo.price]
  ELSE [symbol |-> UnknownSymbol, decimals |-> DefaultDecimals,
        price |-> tokenInfo.price]

\* a variant that takes every allowance from 2^255 on to be infinite
IsInfiniteApprovalFromPow255(allowance) == ~Gt(Pow255, allowance)

\* allowance.toString() === maxUint256.toString()
IsInfiniteApproval(allowance) ==
  BigIntToString(allowance) = BigIntToString(MaxUint256)

\* a variant with the comparison the wrong way round
ExposedAmountLarger(allowance, balance) ==
  IF IsInfiniteApproval(allowance) THEN balance
  ELSE IF Gt(allowance, balance) THEN allowance ELSE balance

\* the exposed amount: the balance for an infinite approval, else the
\* smaller of allowance and balance
ExposedAmount(allowance, balance) ==
  IF IsInfiniteApproval(allowance) THEN balance
  ELSE IF Gt(allowance, balance) THEN balance ELSE allowance

\* decimal digit strings: leading zeros dropped, trailing zeros dropped, a
\* run of zeros, and the product with a small number
RECURSIVE StripLeadingZeros(_)
StripLeadingZeros(ds) ==
  IF Len(ds) > 1 /\ ds[1] = 0 THEN StripLeadingZeros(Tail(ds)) ELSE ds

RECURSIVE StripTrailingZeros(_)
StripTrailingZeros(ds) ==
  IF Len(ds) > 1 /\ ds[Len(ds)] = 0
  THEN StripTrailingZeros(SubSeq(ds, 1, Len(ds) - 1))
  ELSE ds

Zeros(n) == [i \in 1..n |-> 0]

\* the digits of a small number
RECURSIVE SmallDigits(_)
SmallDigits(n) == IF n = 0 THEN << >> ELSE SmallDigits(n \div 10) \o << n % 10 >>

\* ds * p + carry over the digits ds: the Len(ds) low digits and the carry
\* out; the carry out of the low half is computed before the high half
RECURSIVE MulRange(_, _, _)
MulRange(ds, p, carry) ==
  IF Len(ds) = 0 THEN [d |-> << >>, c |-> carry]
  ELSE IF Len(ds) = 1
  THEN [d |-> << (ds[1] * p + carry) % 10 >>, c |-> (ds[1] * p + carry) \div 10]
  ELSE LET h == Len(ds) \div 2
           lo == MulRange(SubSeq(ds, h + 1, Len(ds)), p, carry)
       IN  IF lo.c >= 0
           THEN LET hi == MulRange(SubSeq(ds, 1, h), p, lo.c)
                IN  [d |-> hi.d \o lo.d, c |-> hi.c]
           ELSE lo

MulDigits(ds, p) ==
  LET r == MulRange(ds, p, 0) IN StripLeadingZeros(SmallDigits(r.c) \o r.d)

\* ethers.formatUnits(value, decimals): the string whole "." frac, the
\* fraction without trailing zeros but with one digit at least; with 0
\* decimals the string is the whole part alone
Formatted(value, decimals) ==
  LET s == BigIntToString(value)
      padded == IF Len(s) <= decimals THEN Zeros(decimals + 1 - Len(s)) \o s ELSE s
      n == Len(padded)
  IN  [whole |-> SubSeq(padded, 1, n - decimals),
       frac |-> IF decimals = 0 THEN << >>
                ELSE StripTrailingZeros(SubSeq(padded, n - decimals + 1, n))]

\* the decimals and amounts that occur in a run, formatted once
ChainDecimals ==
  { DefaultDecimals } \cup { DecimalsAnswers[i].val : i \in DOMAIN DecimalsAnswers }
FormatTable == [v \in UintValues, d \in ChainDecimals |-> Formatted(v, d)]
FormatUnits(value, decimals) ==
  IF value \in UintValues /\ decimals \in ChainDecimals
  THEN FormatTable[value, decimals] ELSE Formatted(value, decimals)

\* numbers of the USD column: none (null), or digits / 10^scale, written
\* with the smallest scale
NoValue == [null |-> TRUE, digits |-> << 0 >>, scale |-> 0]

RECURSIVE Value(_, _)
Value(ds, s) ==
  IF s > 0 /\ ds[Len(ds)] = 0
  THEN Value(IF Len(ds) = 1 THEN ds ELSE SubSeq(ds, 1, Len(ds) - 1), s - 1)
  ELSE [null |-> FALSE, digits |-> ds, scale |-> s]

\* parseFloat of a formatted amount, as the exact decimal number it denotes
ParseFloat(formatted) ==
  Value(StripLeadingZeros(formatted.whole \o formatted.frac), Len(formatted.frac))

\* a variant that parses the whole part only
ExposedValueUSDOfWholePart(formattedExposedAmount, price) ==
  IF price # Null
  THEN Value(MulDigits(formattedExposedAmount.whole, price.val), 0)
  ELSE NoValue

\* exposedValueUSD: parseFloat(formattedExposedAmount) * price, or null
ValueUSD(formattedExposedAmount, price) ==
  IF price # Null
  THEN LET v == ParseFloat(formattedExposedAmount)
       IN  Value(MulDigits(v.digits, price.val), v.scale)
  ELSE NoValue

\* the prices that occur in a run, and the values in USD, computed once
ChainPrices == { Null, Num(1) } \cup { PriceInputs[i] : i \in DOMAIN PriceInputs }
ChainAmounts == { FormatTable[v, d] : v \in UintValues, d \in ChainDecimals }
ValueTable == [f \in ChainAmounts, p \in ChainPrices |-> ValueUSD(f, p)]
ExposedValueUSD(formattedExposedAmount, price) ==
  IF formattedExposedAmount \in ChainAmounts /\ price \in ChainPrices
  THEN ValueTable[formattedExposedAmount, price]
  ELSE ValueUSD(formattedExposedAmount, price)

\* the string of the infinity sign, which has no digits
InfinitySign == [whole |-> << >>, frac |-> << >>]

\* the record pushed to results
ApprovalRecord(address, tokenAddress, tok, spender, allowance, balance) ==
  [walletAddress |-> address,
   tokenAddress |-> tokenAddress,
   tokenSymbol |-> tok.symbol,
   spenderAddress |-> spender,
   allowance |-> IF IsInfiniteApproval(allowance) THEN InfinitySign
                 ELSE FormatUnits(allowance, tok.decimals),
   rawAllowance |-> BigIntToString(allowance),
   isInfiniteApproval |-> IsInfiniteApproval(allowance),
   balance |-> FormatUnits(balance, tok.decimals),
   rawBalance |-> BigIntToString(balance),
   exposedAmount |-> FormatUnits(ExposedAmount(allowance, balance), tok.decimals),
   rawExposedAmount |-> BigIntToString(ExposedAmount(allowance, balance)),
   price |-> tok.price,
   exposedValueUSD |->
     ExposedValueUSD(FormatUnits(ExposedAmount(allowance, balance), tok.decimals),
                     tok.price)]

(***************************************************************************)
(* Pure parts of the display and the export                                *)
(***************************************************************************)
\* terminal tables show at most this many rows
MAX_DISPLAY_ROWS == 100

Min(a, b) == IF a < b THEN a ELSE b

\* the digits of a number at a scale not below its own
Scaled(v, s) == StripLeadingZeros(v.digits \o Zeros(s - v.scale))

\* a < b for digit strings without leading zeros
DigitsLess(a, b) ==
  \/ Len(a) < Len(b)
  \/ /\ Len(a) = Len(b)
     /\ \E i \in 1..Len(a) : a[i] < b[i] /\ \A j \in 1..(i - 1) : a[j] = b[j]

\* a < b for numbers
ValueLess(a, b) ==
  LET s == IF a.scale > b.scale THEN a.scale ELSE b.scale
  IN  DigitsLess(Scaled(a, s), Scaled(b, s))

\* as + bs + carry for digit strings of one length: the digits of that length
\* and the carry out; the carry out of the low half is computed before the
\* high half
RECURSIVE AddRange(_, _, _)
AddRange(as, bs, carry) ==
  IF Len(as) = 0 THEN [d |-> << >>, c |-> carry]
  ELSE IF Len(as) = 1
  THEN [d |-> << (as[1] + bs[1] + carry) % 10 >>, c |-> (as[1] + bs[1] + carry) \div 10]
  ELSE LET h == Len(as) \div 2
           lo == AddRange(SubSeq(as, h + 1, Len(as)), SubSeq(bs, h + 1, Len(bs)), carry)
       IN  IF lo.c >= 0
           THEN LET hi == AddRange(SubSeq(as, 1, h), SubSeq(bs, 1, h), lo.c)
                IN  [d |-> hi.d \o lo.d, c |-> hi.c]
           ELSE lo

AddDigits(a, b) ==
  LET n == IF Len(a) > Len(b) THEN Len(a) ELSE Len(b)
      r == AddRange(Zeros(n - Len(a)) \o a, Zeros(n - Len(b)) \o b, 0)
  IN  StripLeadingZeros(SmallDigits(r.c) \o r.d)

\* a + b for numbers
AddValues(a, b) ==
  LET s == IF a.scale > b.scale THEN a.scale ELSE b.scale
  IN  Value(AddDigits(Scaled(a, s), Scaled(b, s)), s)

\* the sum of the numbers vs[lo..hi], 0 for none, added up in halves
RECURSIVE SumValues(_, _, _)
SumValues(vs, lo, hi) ==
  IF lo > hi THEN Value(<< 0 >>, 0)
  ELSE IF lo = hi THEN vs[lo]
  ELSE LET mid == (lo + hi) \div 2
       IN  AddValues(SumValues(vs, lo, mid), SumValues(vs, mid + 1, hi))

\* the (wallet, token, spender) identity of a record
Identity(r) == << r.walletAddress, r.tokenAddress, r.spenderAddress >>

HasValue(r) == ~r.exposedValueUSD.null
IsInfinite(r) == r.isInfiniteApproval

\* [...rs].sort((a, b) => b.exposedValueUSD - a.exposedValueUSD): Array.sort
\* is stable, so rs[j] comes before rs[i] when its value is larger, or equal
\* with j < i
SortByValueDescending(rs) ==
  LET n == Len(rs)
      Before(j, i) ==
        \/ ValueLess(rs[i].exposedValueUSD, rs[j].exposedValueUSD)
        \/ /\ ~ValueLess(rs[j].exposedValueUSD, rs[i].exposedValueUSD)
           /\ j < i
      rank == << >> \o [i \in 1..n |-> Cardinality({ j \in 1..n : Before(j, i) }) + 1]
      at == [k \in 1..n |-> CHOOSE i \in 1..n : rank[i] = k]
  IN  [k \in 1..n |-> rs[at[k]]]

\* the loop that pushes the infinite approvals whose identity is not yet
\* among importantResults: the k-th of them is pushed unless its identity is
\* among the high values or among the infinite approvals before it
PushMissing(highValueResults, infiniteResults) ==
  LET Missing(k) ==
        /\ \A i \in 1..Len(highValueResults) :
             Identity(highValueResults[i]) # Identity(infiniteResults[k])
        /\ \A j \in 1..(k - 1) :
             Identity(infiniteResults[j]) # Identity(infiniteResults[k])
      pushed == SelectSeq([k \in 1..Len(infiniteResults) |-> k], Missing)
  IN  highValueResults \o [k \in 1..Len(pushed) |-> infiniteResults[pushed[k]]]

\* a variant that takes every infinite approval
ImportantResultsOfAllInfinite(rs) ==
  LET sortedResults == SortByValueDescending(SelectSeq(rs, HasValue))
      highValueResults ==
        SubSeq(sortedResults, 1, Min(MAX_DISPLAY_ROWS \div 2, Len(sortedResults)))
      infiniteResults == SelectSeq(rs, IsInfinite)
      importantResults == PushMissing(highValueResults, infiniteResults)
  IN  SubSeq(importantResults, 1, Min(MAX_DISPLAY_ROWS, Len(importantResults)))

\* the rows shown for a collection of more than MAX_DISPLAY_ROWS records
ImportantResults(rs) ==
  LET sortedResults == SortByValueDescending(SelectSeq(rs, HasValue))
      highValueResults ==
        SubSeq(sortedResults, 1, Min(MAX_DISPLAY_ROWS \div 2, Len(sortedResults)))
      allInfinite == SelectSeq(rs, IsInfinite)
      infiniteResults ==
        SubSeq(allInfinite, 1, Min(MAX_DISPLAY_ROWS \div 2, Len(allInfinite)))
      importantResults == PushMissing(highValueResults, infiniteResults)
  IN  SubSeq(importantResults, 1, Min(MAX_DISPLAY_ROWS, Len(importantResults)))

\* a variant without the ceiling
TableRowsUncut(rs) == rs

\* the rows handed to displayResultTable
TableRows(rs) == IF Len(rs) > MAX_DISPLAY_ROWS THEN ImportantResults(rs) ELSE rs

\* the figures of the summary
Summary(rs) ==
  LET known == SelectSeq(rs, HasValue)
      values == [i \in 1..Len(known) |-> known[i].exposedValueUSD]
  IN  [uniqueWallets |-> Cardinality({ rs[i].walletAddress : i \in 1..Len(rs) }),
       uniqueTokens |-> Cardinality({ rs[i].tokenAddress : i \in 1..Len(rs) }),
       uniqueSpenders |-> Cardinality({ rs[i].spenderAddress : i \in 1..Len(rs) }),
       approvals |-> Len(rs),
       infiniteApprovals |-> Len(SelectSeq(rs, IsInfinite)),
       totalExposedValueUSD |-> SumValues(values, 1, Len(values)),
       exposedValueCount |-> Len(known)]

\* Number.prototype.toFixed(2) as a string whole "." frac, the number rounded
\* to hundredths (numbers from 10^21 on, which toFixed writes with an
\* exponent, are written out as well)
ToFixed2(v) ==
  LET n == Len(v.digits)
      cut == v.scale - 2
      hundredths ==
        IF cut <= 0 THEN v.digits \o Zeros(-cut)
        ELSE LET kept == IF n > cut THEN SubSeq(v.digits, 1, n - cut) ELSE << 0 >>
                 next == IF n >= cut THEN v.digits[n - cut + 1] ELSE 0
             IN  IF next >= 5 THEN AddDigits(kept, << 1 >>) ELSE kept
      str == Zeros(3 - Len(hundredths)) \o hundredths
  IN  [whole |-> SubSeq(str, 1, Len(str) - 2),
       frac |-> SubSeq(str, Len(str) - 1, Len(str))]

\* the string 'unknown' of the csv's value column, which has no digits
Unknown == [whole |-> << >>, frac |-> << >>]

\* one line of the csv
CsvRow(r) ==
  << r.walletAddress, r.tokenAddress, r.tokenSymbol, r.spenderAddress,
     r.allowance, r.balance, r.exposedAmount, r.price,
     IF r.exposedValueUSD.null THEN Unknown ELSE ToFixed2(r.exposedValueUSD),
     r.isInfiniteApproval >>

\* a variant that records a zero allowance as well
IsRecordedAlways(allowance) == TRUE

\* whether advanced mode records an allowance: zero allowances are skipped
IsRecorded(allowance) == BigIntToString(allowance) # << 0 >>

(***************************************************************************)
(* Progress reporter                                                       *)
(***************************************************************************)
ThrottleMs == 500

\* period of the progress interval
TickMs == 1000

\* the remaining time of a status line: the placeholder, or a number of
\* seconds, of minutes, or of tenths of an hour
Computing == [unit |-> "computing", n |-> 0]

\* Math.ceil(n / d) for d > 0
Ceil(n, d) == (n + d - 1) \div d

\* (n / d).toFixed(1) in tenths, for n >= 0 and d > 0
Tenths(n, d) == (20 * n + d) \div (2 * d)

\* a variant that shows the placeholder until the last item
EtaComputingLonger(elapsedMs, completed, total) ==
  IF completed < total - 1 \/ completed = 0 THEN Computing
  ELSE LET n == elapsedMs * (total - completed)
           d == completed * 1000
       IN  IF n < 60 * d THEN [unit |-> "s", n |-> Ceil(n, d)]
           ELSE IF n < 3600 * d THEN [unit |-> "min", n |-> Ceil(n, 60 * d)]
           ELSE [unit |-> "h", n |-> Tenths(n, 3600 * d)]

\* the eta of a status line: remainingTime = n / d seconds, where
\* n / d = (elapsed / completedTasks) * (totalTasks - completedTasks)
Eta(elapsedMs, completed, total) ==
  IF completed > 0
  THEN LET n == elapsedMs * (total - completed)
           d == completed * 1000
       IN  IF n < 60 * d THEN [unit |-> "s", n |-> Ceil(n, d)]
           ELSE IF n < 3600 * d THEN [unit |-> "min", n |-> Ceil(n, 60 * d)]
           ELSE [unit |-> "h", n |-> Tenths(n, 3600 * d)]
  ELSE Computing

StatusLine(completed, total, percent, eta) ==
  [kind |-> "status", completed |-> completed, total |-> total, percent |-> percent,
   eta |-> eta]

\* a direct write of what is being fetched, with the current count
ActionLine(completed, total) ==
  [kind |-> "action", completed |-> completed, total |-> total, percent |-> 0,
   eta |-> Computing]

FinalLine(total) ==
  [kind |-> "final", completed |-> total, total |-> total, percent |-> 100,
   eta |-> Computing]

NoLine ==
  [kind |-> "none", completed |-> 0, total |-> 0, percent |-> 0, eta |-> Computing]

\* the reporter before checkApprovals has set it up
NoProgress ==
  [startTime |-> 0, lastUpdate |-> 0, lastProgress |-> 0, out |-> NoLine, writes |-> 0]

\* Math.floor((completedTasks / totalTasks) * 100)
Percent(completed, total) == (completed * 100) \div total

\* a variant of updateProgress without the throttle
UpdateProgressUnthrottled(p, completed, total, t, force) ==
  LET percent == Percent(completed, total)
  IN  [p EXCEPT !.lastUpdate = t, !.lastProgress = percent,
                !.out = StatusLine(completed, total, percent,
                                   Eta(t - p.startTime, completed, total)),
                !.writes = @ + 1]

\* updateProgress(force): p is the reporter's state, t the time of the call
UpdateProgress(p, completed, total, t, force) ==
  LET percent == Percent(completed, total)
  IN  IF force \/ t - p.lastUpdate >= ThrottleMs \/ percent > p.lastProgress
      THEN [p EXCEPT !.lastUpdate = t, !.lastProgress = percent,
                     !.out = StatusLine(completed, total, percent,
                                        Eta(t - p.startTime, completed, total)),
                     !.writes = @ + 1]
      ELSE p

\* a direct process.stdout.write of an action line
WriteAction(p, completed, total) ==
  [p EXCEPT !.out = ActionLine(completed, total), !.writes = @ + 1]

(***************************************************************************)
(* State                                                                   *)
(***************************************************************************)
VARIABLES
  input,          \* mode, addresses, tokens, spenders, lookbackBlocks, env
  pc,             \* where the scan function is
  ai, ti, bi,     \* indices of the address, token and batch being processed
  tok,            \* symbol, decimals, price of the token being processed
  balance,        \* basic mode: balance of the current address and token
  block,          \* advanced mode: currentBlock and startBlock
  tasks,          \* the work items in flight, by id
  waveIds,        \* ids of the batch handed to the last Promise.all
  waveRejected,   \* whether an item of that batch has rejected
  waveNo,         \* number of batches started so far
  results,        \* the record collection
  completedTasks, \* the progress counter
  progress,       \* lastUpdate, lastProgress and the last line on stdout
  now,            \* Date.now()
  timerOn,        \* whether the progress interval is set
  calls,          \* how often each chain call was made
  resolved,       \* the work items that were executed to their end or skipped
  main,           \* main() after the scan: position, table rows, summary, csv rows
  nextTick        \* the time from which the progress interval is due again

vars ==
  << input, pc, ai, ti, bi, tok, balance, block, tasks, waveIds, waveRejected,
     waveNo, results, completedTasks, progress, now, timerOn, calls, resolved,
     main, nextTick >>

Envs == 0..(NumEnvs - 1)

TokenInfos(e, ts) == [i \in 1..Len(ts) |-> TokenInfo(e, ts[i])]

BasicInputs ==
  { [mode |-> "basic", env |-> q[1], addresses |-> q[2],
     tokens |-> TokenInfos(q[1], q[3]), spenders |-> q[4], lookbackBlocks |-> 0] :
    q \in { r \in Envs \X Lists(WalletNames) \X Lists(TokenNames) \X Lists(SpenderNames) :
            Len(r[2]) * Len(r[3]) * Len(r[4]) <= MaxTasks } }

AdvancedInputs ==
  { [mode |-> "advanced", env |-> q[1], addresses |-> q[2],
     tokens |-> TokenInfos(q[1], q[3]), spenders |-> << >>,
     lookbackBlocks |-> Cyc(LookbackInputs, q[1])] :
    q \in { r \in Envs \X Lists(WalletNames) \X Lists(TokenNames) :
            Len(r[2]) * Len(r[3]) <= MaxTasks } }

Basic == input.mode = "basic"
Advanced == input.mode = "advanced"

\* totalTasks
TotalTasks ==
  IF Basic
  THEN Len(input.addresses) * Len(input.tokens) * Len(input.spenders)
  ELSE Len(input.tokens) * Len(input.addresses)

NoToken == [symbol |-> "", decimals |-> 0, price |-> Null]
NoBlock == [currentBlock |-> 0, startBlock |-> 0]
NoTasks == << >>
NoSummary ==
  [uniqueWallets |-> 0, uniqueTokens |-> 0, uniqueSpenders |-> 0,
   approvals |-> 0, infiniteApprovals |-> 0, totalExposedValueUSD |-> NoValue,
   exposedValueCount |-> 0]

\* main() while checkApprovals runs; export: whether --export is given
MainScanning(export) ==
  [at |-> "scan", export |-> export, table |-> << >>, summary |-> NoSummary,
   csv |-> << >>, rpcUrl |-> TRUE, addressFrom |-> "file", tokenFrom |-> "file",
   errors |-> 0, exited |-> FALSE, exitCode |-> 0]

Init ==
  /\ input \in BasicInputs \cup AdvancedInputs
  /\ pc = "init"
  /\ ai = 1 /\ ti = 1 /\ bi = 0
  /\ tok = NoToken
  /\ balance = Zero
  /\ block = NoBlock
  /\ tasks = NoTasks
  /\ waveIds = {}
  /\ waveRejected = FALSE
  /\ waveNo = 0
  /\ results = << >>
  /\ completedTasks = 0
  /\ progress = NoProgress
  /\ nextTick = 0
  /\ now = 0
  /\ timerOn = FALSE
  /\ calls = << >>
  /\ resolved = {}
  /\ main = MainScanning(FALSE)

(***************************************************************************)
(* Helpers of the actions                                                  *)
(***************************************************************************)
\* the scan function is suspended at an await, or has returned: only then
\* the continuation of a work item can run; and not between displayResults
\* and the loop of exportResults, which main() runs without an await between
Suspended ==
  /\ pc \in { "await_meta", "await_balance", "await_wave", "returned" }
  /\ ~ (main.at = "displayed" /\ main.export)

AddCall(c, k) == IF k \in DOMAIN c THEN [c EXCEPT ![k] = @ + 1] ELSE c @@ (k :> 1)

RECURSIVE AddCalls(_, _)
AddCalls(c, ks) == IF ks = << >> THEN c ELSE AddCalls(AddCall(c, Head(ks)), Tail(ks))

Calls(k) == IF k \in DOMAIN calls THEN calls[k] ELSE 0

\* a variant that drops a last batch that is not full
NumBatchesFull(n) == n \div batchSize

\* the batches of a list: batch b holds the positions BatchLo(b)..BatchHi(b, n)
NumBatches(n) == (n + batchSize - 1) \div batchSize
BatchLo(b) == (b - 1) * batchSize + 1
BatchHi(b, n) == Min(b * batchSize, n)

Without(f, id) == [i \in DOMAIN f \ { id } |-> f[i]]

\* the current address and token of the loops
Address == input.addresses[ai]
TokenInfoNow == input.tokens[ti]

(***************************************************************************)
(* Basic mode: checkApprovals                                               *)
(***************************************************************************)
\* checkApprovals is called: counters, progress state and the interval are
\* set up and the loops are entered
BasicStart ==
  /\ Basic /\ pc = "init"
  /\ pc' = IF input.addresses = << >> \/ input.tokens = << >> THEN "finally" ELSE "pair"
  /\ ai' = 1 /\ ti' = 1
  /\ progress' = [progress EXCEPT !.startTime = now, !.lastUpdate = now,
                                  !.lastProgress = 0]
  /\ timerOn' = TRUE
  /\ nextTick' = now + TickMs
  /\ UNCHANGED << main, input, bi, tok, balance, block, tasks, waveIds, waveRejected,
                  waveNo, results, completedTasks, now, calls, resolved >>

\* the body of the token loop up to the await of symbol and decimals
BasicPairStart ==
  /\ Basic /\ pc = "pair"
  /\ bi' = 0
  /\ IF ContractThrows(input.env, TokenInfoNow.address)
     THEN /\ pc' = "catch"
          /\ UNCHANGED << progress, calls >>
     ELSE /\ pc' = "await_meta"
          /\ progress' = WriteAction(progress, completedTasks, TotalTasks)
          /\ calls' = AddCalls(calls, << << "symbol", TokenInfoNow.address >>,
                                         << "decimals", TokenInfoNow.address >> >>)
  /\ UNCHANGED << nextTick, main, input, ai, ti, tok, balance, block, tasks, waveIds, waveRejected,
                  waveNo, results, completedTasks, now, timerOn, resolved >>

\* symbol and decimals have answered: metadata and price are set and the
\* balance is asked for
BasicMetaResolved ==
  /\ Basic /\ pc = "await_meta"
  /\ tok' = ResolveToken(TokenInfoNow, SymbolOf(input.env, TokenInfoNow.address),
                         DecimalsOf(input.env, TokenInfoNow.address))
  /\ progress' = WriteAction(progress, completedTasks, TotalTasks)
  /\ calls' = AddCall(calls, << "balanceOf", TokenInfoNow.address, Address >>)
  /\ pc' = "await_balance"
  /\ UNCHANGED << nextTick, main, input, ai, ti, bi, balance, block, tasks, waveIds, waveRejected,
                  waveNo, results, completedTasks, now, timerOn, resolved >>

\* the work item of spender position si, as started by batch.map
BasicTask(si, bal) ==
  [id |-> << ai, ti, si >>, wave |-> waveNo + 1,
   address |-> Address, tokenAddress |-> TokenInfoNow.address,
   spender |-> input.spenders[si], tok |-> tok, balance |-> bal]

RECURSIVE AllowanceKeys(_, _)
AllowanceKeys(lo, hi) ==
  IF lo > hi THEN << >>
  ELSE << << "allowance", TokenInfoNow.address, Address, input.spenders[lo] >> >>
       \o AllowanceKeys(lo + 1, hi)

\* batch b of the spenders is started: every item writes its action line and
\* asks for its allowance, then the scan awaits Promise.all
BasicStartWave(b, bal) ==
  LET lo == BatchLo(b)
      hi == BatchHi(b, Len(input.spenders))
  IN  /\ bi' = b
      /\ tasks' = tasks @@ [id \in { << ai, ti, si >> : si \in lo..hi } |->
                              BasicTask(id[3], bal)]
      /\ waveIds' = { << ai, ti, si >> : si \in lo..hi }
      /\ waveRejected' = FALSE
      /\ waveNo' = waveNo + 1
      /\ calls' = AddCalls(calls, AllowanceKeys(lo, hi))
      /\ progress' = WriteAction(progress, completedTasks, TotalTasks)
      /\ pc' = "await_wave"

\* balanceOf has answered (a failure leaves the balance 0); the batches are
\* built and the first one is started
BasicBalanceResolved ==
  /\ Basic /\ pc = "await_balance"
  /\ LET ans == BalanceOf(input.env, Address, TokenInfoNow.address)
         bal == IF ans.ok THEN ans.val ELSE Zero
     IN  /\ balance' = bal
         /\ BasicStartWave(1, bal)
  /\ UNCHANGED << nextTick, main, input, ai, ti, tok, block, results, completedTasks, now,
                  timerOn, resolved >>

\* a variant that records a failed allowance read as an allowance of 0
BasicTaskResolvedRecordingFailure(id) ==
  /\ Basic /\ Suspended /\ id \in DOMAIN tasks
  /\ LET t == tasks[id]
         ans == AllowanceOf(input.env, t.address, t.tokenAddress, t.spender)
     IN  /\ results' = Append(results,
                              ApprovalRecord(t.address, t.tokenAddress, t.tok, t.spender,
                                             IF ans.ok THEN ans.val ELSE Zero, t.balance))
         /\ completedTasks' = completedTasks + 1
         /\ progress' = UpdateProgress(progress, completedTasks + 1, TotalTasks, now, FALSE)
         /\ tasks' = Without(tasks, id)
         /\ resolved' = resolved \cup { id }
  /\ UNCHANGED << nextTick, main, input, pc, ai, ti, bi, tok, balance, block, waveIds, waveRejected,
                  waveNo, now, timerOn, calls >>

\* the allowance of one work item has answered: the record is pushed, or the
\* failure is logged; either way the item is counted and progress reported
BasicTaskResolved(id) ==
  /\ Basic /\ Suspended /\ id \in DOMAIN tasks
  /\ LET t == tasks[id]
         ans == AllowanceOf(input.env, t.address, t.tokenAddress, t.spender)
     IN  /\ results' = IF ans.ok
                       THEN Append(results,
                                   ApprovalRecord(t.address, t.tokenAddress, t.tok,
                                                  t.spender, ans.val, t.balance))
                       ELSE results
         /\ completedTasks' = completedTasks + 1
         /\ progress' = UpdateProgress(progress, completedTasks + 1, TotalTasks, now, FALSE)
         /\ tasks' = Without(tasks, id)
         /\ resolved' = resolved \cup { id }
  /\ UNCHANGED << nextTick, main, input, pc, ai, ti, bi, tok, balance, block, waveIds, waveRejected,
                  waveNo, now, timerOn, calls >>

\* the loops move on to the next token, the next address, or end
BasicAdvance ==
  IF ti < Len(input.tokens) THEN pc' = "pair" /\ ti' = ti + 1 /\ ai' = ai
  ELSE IF ai < Len(input.addresses) THEN pc' = "pair" /\ ti' = 1 /\ ai' = ai + 1
  ELSE pc' = "finally" /\ UNCHANGED << ai, ti >>

\* Promise.all of the batch has fulfilled: the next batch is started, or the
\* loops move on
BasicWaveResolved ==
  /\ Basic /\ pc = "await_wave"
  /\ ~waveRejected /\ waveIds \cap DOMAIN tasks = {}
  /\ IF bi < NumBatches(Len(input.spenders))
     THEN /\ BasicStartWave(bi + 1, balance)
          /\ UNCHANGED << ai, ti >>
     ELSE /\ BasicAdvance
          /\ UNCHANGED << bi, tasks, waveIds, waveRejected, waveNo, calls, progress >>
  /\ UNCHANGED << nextTick, main, input, tok, balance, block, results, completedTasks, now,
                  timerOn, resolved >>

\* the catch of the token loop: all spenders of the pair are counted
BasicCatch ==
  /\ Basic /\ pc = "catch"
  /\ completedTasks' = completedTasks + Len(input.spenders)
  /\ progress' = UpdateProgress(progress, completedTasks + Len(input.spenders),
                                TotalTasks, now, TRUE)
  /\ resolved' = resolved \cup { << ai, ti, si >> : si \in 1..Len(input.spenders) }
  /\ BasicAdvance
  /\ UNCHANGED << nextTick, main, input, bi, tok, balance, block, tasks, waveIds, waveRejected,
                  waveNo, results, now, timerOn, calls >>

(***************************************************************************)
(* Advanced mode: findAndCheckApprovals                                    *)
(***************************************************************************)
Max(a, b) == IF a > b THEN a ELSE b

\* findAndCheckApprovals is called: the block number is asked for
AdvancedStart ==
  /\ Advanced /\ pc = "init"
  /\ pc' = "await_block"
  /\ calls' = AddCall(calls, << "getBlockNumber" >>)
  /\ UNCHANGED << nextTick, main, input, ai, ti, bi, tok, balance, block, tasks, waveIds,
                  waveRejected, waveNo, results, completedTasks, progress, now,
                  timerOn, resolved >>

\* the block number has answered: the window is fixed, counters, progress
\* state and the interval are set up and the token loop is entered; a
\* failure makes the function throw before any of that
\* a variant that does not keep the start of the window at block 0 or above
StartBlockUnclamped(currentBlock, lookbackBlocks) == currentBlock - lookbackBlocks

\* Math.max(0, currentBlock - lookbackBlocks)
StartBlock(currentBlock, lookbackBlocks) == Max(0, currentBlock - lookbackBlocks)

AdvancedBlockResolved ==
  /\ Advanced /\ pc = "await_block"
  /\ LET ans == BlockNumberOf(input.env)
     IN  IF ans.ok
         THEN /\ block' = [currentBlock |-> ans.val,
                           startBlock |-> StartBlock(ans.val, input.lookbackBlocks)]
              /\ progress' = [progress EXCEPT !.startTime = now, !.lastUpdate = now,
                                              !.lastProgress = 0]
              /\ timerOn' = TRUE
              /\ nextTick' = now + TickMs
              /\ ti' = 1
              /\ pc' = IF input.tokens = << >> THEN "finally" ELSE "token"
         ELSE /\ pc' = "threw"
              /\ UNCHANGED << block, progress, timerOn, nextTick, ti >>
  /\ UNCHANGED << main, input, ai, bi, tok, balance, tasks, waveIds, waveRejected,
                  waveNo, results, completedTasks, now, calls, resolved >>

\* the body of the token loop up to the await of symbol and decimals
AdvancedTokenStart ==
  /\ Advanced /\ pc = "token"
  /\ bi' = 0
  /\ progress' = UpdateProgress(progress, completedTasks, TotalTasks, now, TRUE)
  /\ IF ContractThrows(input.env, TokenInfoNow.address)
     THEN /\ pc' = "catch"
          /\ UNCHANGED calls
     ELSE /\ pc' = "await_meta"
          /\ calls' = AddCalls(calls, << << "symbol", TokenInfoNow.address >>,
                                         << "decimals", TokenInfoNow.address >> >>)
  /\ UNCHANGED << nextTick, main, input, ai, ti, tok, balance, block, tasks, waveIds, waveRejected,
                  waveNo, results, completedTasks, now, timerOn, resolved >>

\* the work item of address position wi, as started by batch.map
AdvancedTask(wi, tk) ==
  [id |-> << ti, wi >>, wave |-> waveNo + 1,
   address |-> input.addresses[wi], tokenAddress |-> TokenInfoNow.address,
   tok |-> tk, at |-> "balance", balance |-> Zero,
   spender |-> "", todo |-> << >>, processedSpenders |-> {}]

RECURSIVE BalanceKeys(_, _)
BalanceKeys(lo, hi) ==
  IF lo > hi THEN << >>
  ELSE << << "balanceOf", TokenInfoNow.address, input.addresses[lo] >> >>
       \o BalanceKeys(lo + 1, hi)

\* n successive unforced calls of updateProgress
RECURSIVE UpdateProgressTimes(_, _, _, _, _)
UpdateProgressTimes(p, completed, total, t, n) ==
  IF n = 0 THEN p
  ELSE UpdateProgressTimes(UpdateProgress(p, completed, total, t, FALSE),
                           completed, total, t, n - 1)

\* batch b of the addresses is started: every item reports progress and asks
\* for its balance, then the scan awaits Promise.all
AdvancedStartWave(b, tk) ==
  LET lo == BatchLo(b)
      hi == BatchHi(b, Len(input.addresses))
  IN  /\ bi' = b
      /\ tasks' = tasks @@ [id \in { << ti, wi >> : wi \in lo..hi } |->
                              AdvancedTask(id[2], tk)]
      /\ waveIds' = { << ti, wi >> : wi \in lo..hi }
      /\ waveRejected' = FALSE
      /\ waveNo' = waveNo + 1
      /\ calls' = AddCalls(calls, BalanceKeys(lo, hi))
      /\ progress' = UpdateProgressTimes(progress, completedTasks, TotalTasks, now,
                                         hi - lo + 1)
      /\ pc' = "await_wave"

\* symbol and decimals have answered: metadata and price are set, the
\* batches are built and the first one is started
AdvancedMetaResolved ==
  /\ Advanced /\ pc = "await_meta"
  /\ LET tk == ResolveToken(TokenInfoNow, SymbolOf(input.env, TokenInfoNow.address),
                            DecimalsOf(input.env, TokenInfoNow.address))
     IN  /\ tok' = tk
         /\ AdvancedStartWave(1, tk)
  /\ UNCHANGED << nextTick, main, input, ai, ti, balance, block, results, completedTasks, now,
                  timerOn, resolved >>

\* the finally of a work item: it is counted and progress is reported
AdvancedTaskEnds(id, p) ==
  /\ completedTasks' = completedTasks + 1
  /\ progress' = UpdateProgress(p, completedTasks + 1, TotalTasks, now, FALSE)
  /\ tasks' = Without(tasks, id)
  /\ resolved' = resolved \cup { id }

\* a variant that skips nothing
SkipProcessedNone(events, processed) == events

\* the events of the log that are left once the processed spenders are skipped
RECURSIVE SkipProcessed(_, _)
SkipProcessed(events, processed) ==
  IF events = << >> THEN << >>
  ELSE IF Head(events) \in processed THEN SkipProcessed(Tail(events), processed)
  ELSE events

\* the event loop of a work item runs on: the next spender not yet processed
\* is asked for its allowance, or the loop ends and with it the item
AdvancedTaskContinues(id, t, events) ==
  LET rest == SkipProcessed(events, t.processedSpenders)
  IN  IF rest = << >>
      THEN /\ AdvancedTaskEnds(id, progress)
           /\ UNCHANGED calls
      ELSE /\ tasks' = [tasks EXCEPT ![id] =
                          [t EXCEPT !.at = "allowance", !.spender = Head(rest),
                                    !.todo = Tail(rest),
                                    !.processedSpenders = @ \cup { Head(rest) }]]
           /\ progress' = UpdateProgress(progress, completedTasks, TotalTasks, now, FALSE)
           /\ calls' = AddCall(calls, << "allowance", t.tokenAddress, t.address, Head(rest) >>)
           /\ UNCHANGED << completedTasks, resolved >>

\* balanceOf of a work item has answered (a failure leaves the balance 0);
\* the event filter is built, which may throw and reject the item, and the
\* log is queried
AdvancedTaskBalance(id) ==
  /\ Advanced /\ Suspended /\ id \in DOMAIN tasks /\ tasks[id].at = "balance"
  /\ LET t == tasks[id]
         ans == BalanceOf(input.env, t.address, t.tokenAddress)
         bal == IF ans.ok THEN ans.val ELSE Zero
     IN  IF FilterThrows(input.env, t.address, t.tokenAddress)
         THEN /\ AdvancedTaskEnds(id, progress)
              /\ waveRejected' = (waveRejected \/ id \in waveIds)
              /\ UNCHANGED calls
         ELSE /\ tasks' = [tasks EXCEPT ![id] = [t EXCEPT !.at = "events", !.balance = bal]]
              /\ progress' = UpdateProgress(progress, completedTasks, TotalTasks, now, FALSE)
              /\ calls' = AddCall(calls, << "queryFilter", t.tokenAddress, t.address,
                                            block.startBlock, block.currentBlock >>)
              /\ UNCHANGED << completedTasks, resolved, waveRejected >>
  /\ UNCHANGED << nextTick, main, input, pc, ai, ti, bi, tok, balance, block, waveIds, waveNo,
                  results, now, timerOn >>

\* a variant without the catch of the log query: a failure rejects the item
AdvancedTaskEventsRejecting(id) ==
  /\ Advanced /\ Suspended /\ id \in DOMAIN tasks /\ tasks[id].at = "events"
  /\ LET t == tasks[id]
         ans == EventsOf(input.env, t.address, t.tokenAddress)
     IN  IF ans.ok
         THEN AdvancedTaskContinues(id, t, ans.val) /\ UNCHANGED waveRejected
         ELSE /\ AdvancedTaskEnds(id, progress)
              /\ waveRejected' = (waveRejected \/ id \in waveIds)
              /\ UNCHANGED calls
  /\ UNCHANGED << nextTick, main, input, pc, ai, ti, bi, tok, balance, block, waveIds,
                  waveNo, results, now, timerOn >>

\* the log query of a work item has answered: its event loop starts, or the
\* failure is logged and the item ends
AdvancedTaskEvents(id) ==
  /\ Advanced /\ Suspended /\ id \in DOMAIN tasks /\ tasks[id].at = "events"
  /\ LET t == tasks[id]
         ans == EventsOf(input.env, t.address, t.tokenAddress)
     IN  IF ans.ok
         THEN AdvancedTaskContinues(id, t, ans.val)
         ELSE AdvancedTaskEnds(id, progress) /\ UNCHANGED calls
  /\ UNCHANGED << nextTick, main, input, pc, ai, ti, bi, tok, balance, block, waveIds, waveRejected,
                  waveNo, results, now, timerOn >>

\* a variant whose event loop is left at the first failed allowance read
AdvancedTaskAllowanceLeavingLoop(id) ==
  /\ Advanced /\ Suspended /\ id \in DOMAIN tasks /\ tasks[id].at = "allowance"
  /\ LET t == tasks[id]
         ans == AllowanceOf(input.env, t.address, t.tokenAddress, t.spender)
     IN  /\ results' = IF ans.ok /\ IsRecorded(ans.val)
                       THEN Append(results,
                                   ApprovalRecord(t.address, t.tokenAddress, t.tok,
                                                  t.spender, ans.val, t.balance))
                       ELSE results
         /\ IF ans.ok
            THEN AdvancedTaskContinues(id, t, t.todo)
            ELSE AdvancedTaskEnds(id, progress) /\ UNCHANGED calls
  /\ UNCHANGED << nextTick, main, input, pc, ai, ti, bi, tok, balance, block, waveIds, waveRejected,
                  waveNo, now, timerOn >>

\* the allowance of the current spender has answered: a non-zero allowance is
\* recorded, a zero one skipped, a failure logged; the event loop runs on
AdvancedTaskAllowance(id) ==
  /\ Advanced /\ Suspended /\ id \in DOMAIN tasks /\ tasks[id].at = "allowance"
  /\ LET t == tasks[id]
         ans == AllowanceOf(input.env, t.address, t.tokenAddress, t.spender)
     IN  /\ results' = IF ans.ok /\ IsRecorded(ans.val)
                       THEN Append(results,
                                   ApprovalRecord(t.address, t.tokenAddress, t.tok,
                                                  t.spender, ans.val, t.balance))
                       ELSE results
         /\ AdvancedTaskContinues(id, t, t.todo)
  /\ UNCHANGED << nextTick, main, input, pc, ai, ti, bi, tok, balance, block, waveIds, waveRejected,
                  waveNo, now, timerOn >>

\* the token loop moves on to the next token, or ends
AdvancedAdvance ==
  IF ti < Len(input.tokens) THEN pc' = "token" /\ ti' = ti + 1
  ELSE pc' = "finally" /\ UNCHANGED ti

\* Promise.all of the batch has fulfilled: the next batch is started, or the
\* token loop moves on
AdvancedWaveResolved ==
  /\ Advanced /\ pc = "await_wave"
  /\ ~waveRejected /\ waveIds \cap DOMAIN tasks = {}
  /\ IF bi < NumBatches(Len(input.addresses))
     THEN /\ AdvancedStartWave(bi + 1, tok)
          /\ UNCHANGED ti
     ELSE /\ AdvancedAdvance
          /\ UNCHANGED << bi, tasks, waveIds, waveRejected, waveNo, calls, progress >>
  /\ UNCHANGED << nextTick, main, input, ai, tok, balance, block, results, completedTasks, now,
                  timerOn, resolved >>

\* Promise.all of the batch has rejected: the scan leaves the batch loop for
\* the catch of the token loop, whatever is still in flight
AdvancedWaveRejected ==
  /\ Advanced /\ pc = "await_wave"
  /\ waveRejected
  /\ pc' = "catch"
  /\ UNCHANGED << nextTick, main, input, ai, ti, bi, tok, balance, block, tasks, waveIds,
                  waveRejected, waveNo, results, completedTasks, progress, now,
                  timerOn, calls, resolved >>

\* the catch of the token loop: the addresses taken to be left are counted
AdvancedCatch ==
  /\ Advanced /\ pc = "catch"
  /\ LET n == Len(input.addresses)
         remainingAddresses == n - (completedTasks % n)
     IN  /\ completedTasks' = completedTasks + remainingAddresses
         /\ progress' = UpdateProgress(progress, completedTasks + remainingAddresses,
                                       TotalTasks, now, TRUE)
         /\ resolved' = resolved \cup { << ti, wi >> : wi \in 1..n }
  /\ AdvancedAdvance
  /\ UNCHANGED << nextTick, main, input, ai, bi, tok, balance, block, tasks, waveIds, waveRejected,
                  waveNo, results, now, timerOn, calls >>

\* the finally of the scan: the interval is cleared, the last line written,
\* and results returned
Finally ==
  /\ pc = "finally"
  /\ timerOn' = FALSE
  /\ progress' = [progress EXCEPT !.out = FinalLine(TotalTasks), !.writes = @ + 1]
  /\ pc' = "returned"
  /\ UNCHANGED << nextTick, main, input, ai, ti, bi, tok, balance, block, tasks, waveIds,
                  waveRejected, waveNo, results, completedTasks, now, calls, resolved >>

Next ==
  \/ BasicStart
  \/ BasicPairStart
  \/ BasicMetaResolved
  \/ BasicBalanceResolved
  \/ \E id \in DOMAIN tasks : BasicTaskResolved(id)
  \/ BasicWaveResolved
  \/ BasicCatch
  \/ AdvancedStart
  \/ AdvancedBlockResolved
  \/ AdvancedTokenStart
  \/ AdvancedMetaResolved
  \/ \E id \in DOMAIN tasks : AdvancedTaskBalance(id)
  \/ \E id \in DOMAIN tasks : AdvancedTaskEvents(id)
  \/ \E id \in DOMAIN tasks : AdvancedTaskAllowance(id)
  \/ AdvancedWaveResolved
  \/ AdvancedWaveRejected
  \/ AdvancedCatch
  \/ Finally

Spec == Init /\ [][Next]_vars

(***************************************************************************)
(* The scan with the clock and the progress interval                       *)
(***************************************************************************)
\* bound: the largest number of work items of a timed run
MaxTimedTasks == 3

\* bound: the clock stops here
MaxTime == 4101000

\* how long the scan may wait at an await before something happens: a
\* second, a hundred seconds, or a stall of more than an hour (what happens
\* within the same millisecond happens with no delay between); a run waits
\* each length at most once, the shorter before the longer
Delays == { 1000, 100000, 4000000 }

\* the scenarios of the outside world of a timed run: in 2 the contract of
\* t1 cannot be made and the filter of (w1, t2) throws, in 4 the filter of
\* (w2, t1) throws
TimedEnvs == { 2, 4 }

TimedInputs ==
  { i \in BasicInputs \cup AdvancedInputs :
      i.env \in TimedEnvs /\
      Len(i.addresses) * Len(i.tokens) * (IF i.mode = "basic" THEN Len(i.spenders) ELSE 1)
        <= MaxTimedTasks }

TimedInit ==
  /\ input \in TimedInputs
  /\ pc = "init"
  /\ ai = 1 /\ ti = 1 /\ bi = 0
  /\ tok = NoToken
  /\ balance = Zero
  /\ block = NoBlock
  /\ tasks = NoTasks
  /\ waveIds = {}
  /\ waveRejected = FALSE
  /\ waveNo = 0
  /\ results = << >>
  /\ completedTasks = 0
  /\ progress = NoProgress
  /\ nextTick = 0
  /\ now = 0
  /\ timerOn = FALSE
  /\ calls = << >>
  /\ resolved = {}
  /\ main = MainScanning(FALSE)

\* time passes while the scan waits at an await, or while work items are
\* still in flight after it has returned
TimePasses ==
  /\ pc = "await_block" \/ (Suspended /\ (pc # "returned" \/ tasks # NoTasks))
  /\ \E d \in Delays :
       /\ now < d /\ now + d <= MaxTime
       /\ now' = now + d
  /\ UNCHANGED << input, pc, ai, ti, bi, tok, balance, block, tasks, waveIds,
                  waveRejected, waveNo, results, completedTasks, progress, timerOn,
                  calls, resolved, main, nextTick >>

\* a variant of the interval's callback that forces the report
IntervalFiresForcing ==
  /\ timerOn /\ Suspended /\ now >= nextTick
  /\ progress' = UpdateProgress(progress, completedTasks, TotalTasks, now, TRUE)
  /\ nextTick' = now + TickMs
  /\ UNCHANGED << input, pc, ai, ti, bi, tok, balance, block, tasks, waveIds,
                  waveRejected, waveNo, results, completedTasks, now, timerOn,
                  calls, resolved, main >>

\* the callback of setInterval runs, not before its time and only while no
\* other code runs: updateProgress()
IntervalFires ==
  /\ timerOn /\ Suspended /\ now >= nextTick
  /\ progress' = UpdateProgress(progress, completedTasks, TotalTasks, now, FALSE)
  /\ nextTick' = now + TickMs
  /\ UNCHANGED << input, pc, ai, ti, bi, tok, balance, block, tasks, waveIds,
                  waveRejected, waveNo, results, completedTasks, now, timerOn,
                  calls, resolved, main >>

TimedNext ==
  \/ Next
  \/ TimePasses
  \/ IntervalFires

TimedSpec == TimedInit /\ [][TimedNext]_vars

(***************************************************************************)
(* main() after the scan: the collection is displayed and exported         *)
(***************************************************************************)
\* bound: the largest collection displayed
MaxRows == 104

\* the answers behind a collection: the allowances by (wallet, token,
\* spender), the balances by (wallet, token), the caller's prices and the
\* symbols by token
AllowancePatterns ==
  { << MaxUint256, Small(3), Small(7), Pow255, Zero >>,
    << MaxUint256 >>,
    << Small(3), MaxMinus1, Small(7) >> }
BalancePattern == << Small(5), MaxUint256, Zero >>
TokenPatterns ==
  { [prices |-> << Num(2), Null, Null >>, symbols |-> << "WETH", "USDT" >>],
    [prices |-> << Null >>, symbols |-> << "WETH" >>],
    [prices |-> << Num(2) >>, symbols |-> << "USDT", "WETH" >>] }
DecimalsPattern == << 6, 18 >>

Shapes ==
  { [allowances |-> a, tokens |-> t, spenders |-> sp] :
      a \in AllowancePatterns, t \in TokenPatterns,
      sp \in ListChoices(SpenderNames, Len(SpenderNames)) }

\* the i-th record of a basic scan over 7 tokens and the spender list of the
\* shape whose reads all succeed
RecordAt(i, shape) ==
  LET si == ((i - 1) % Len(shape.spenders)) + 1
      tn == (((i - 1) \div Len(shape.spenders)) % Len(TokenNames)) + 1
      wn == ((i - 1) \div (Len(shape.spenders) * Len(TokenNames))) + 1
      spender == shape.spenders[si]
      sn == Idx(SpenderNames, spender)
      token == ResolveToken([address |-> TokenNames[tn],
                             price |-> Cyc(shape.tokens.prices, tn)],
                            Ok(Cyc(shape.tokens.symbols, tn)),
                            Ok(Cyc(DecimalsPattern, tn)))
  IN  ApprovalRecord(WalletNames[wn], TokenNames[tn], token, spender,
                     Cyc(shape.allowances, 49 * wn + 7 * tn + sn),
                     Cyc(BalancePattern, 7 * wn + tn))

Collection(n, shape) == [i \in 1..n |-> RecordAt(i, shape)]

Collections ==
  { Collection(n, shape) :
      n \in { 0, 1, 2, MAX_DISPLAY_ROWS, MAX_DISPLAY_ROWS + 1, MaxRows },
      shape \in Shapes }

\* checkApprovals has returned a collection to main(); the variables of the
\* scan play no part from here on
NoInput ==
  [mode |-> "basic", env |-> 0, addresses |-> << >>, tokens |-> << >>,
   spenders |-> << >>, lookbackBlocks |-> 0]

DisplayInit ==
  /\ results \in Collections
  /\ main \in { MainScanning(export) : export \in BOOLEAN }
  /\ pc = "returned"
  /\ input = NoInput
  /\ ai = 1 /\ ti = 1 /\ bi = 0
  /\ tok = NoToken
  /\ balance = Zero
  /\ block = NoBlock
  /\ tasks = NoTasks
  /\ waveIds = {}
  /\ waveRejected = FALSE
  /\ waveNo = 0
  /\ completedTasks = 0
  /\ progress = NoProgress
  /\ nextTick = 0
  /\ now = 0
  /\ timerOn = FALSE
  /\ calls = << >>
  /\ resolved = {}

\* a variant that computes the summary from the rows of the table
DisplayResultsSummingTable ==
  /\ pc = "returned" /\ main.at = "scan"
  /\ main' = IF Len(results) = 0
              THEN [main EXCEPT !.at = "displayed"]
              ELSE [main EXCEPT !.at = "displayed",
                                !.summary = Summary(TableRows(results)),
                                !.table = TableRows(results)]
  /\ results' = results
  /\ UNCHANGED << nextTick, input, pc, ai, ti, bi, tok, balance, block, tasks, waveIds,
                  waveRejected, waveNo, completedTasks, progress, now, timerOn,
                  calls, resolved >>

\* displayResults(results): nothing but a log line for an empty collection,
\* else the summary figures, the table and the summary; filter, slice and
\* the sort of a copy leave the collection as it is
DisplayResults ==
  /\ pc = "returned" /\ main.at = "scan"
  /\ main' = IF Len(results) = 0
              THEN [main EXCEPT !.at = "displayed"]
              ELSE [main EXCEPT !.at = "displayed",
                                !.summary = Summary(results),
                                !.table = TableRows(results)]
  /\ results' = results
  /\ UNCHANGED << nextTick, input, pc, ai, ti, bi, tok, balance, block, tasks, waveIds,
                  waveRejected, waveNo, completedTasks, progress, now, timerOn,
                  calls, resolved >>

\* exportResults(results, options.export), called when --export is given
ExportResults ==
  /\ main.at = "displayed" /\ main.export
  /\ main' = [main EXCEPT !.at = "exported",
                          !.csv = [i \in 1..Len(results) |-> CsvRow(results[i])]]
  /\ UNCHANGED << nextTick, input, pc, ai, ti, bi, tok, balance, block, tasks, waveIds,
                  waveRejected, waveNo, results, completedTasks, progress, now,
                  timerOn, calls, resolved >>

DisplayNext ==
  \/ DisplayResults
  \/ ExportResults

DisplaySpec == DisplayInit /\ [][DisplayNext]_vars

(***************************************************************************)
(* The sequential basic checker                                            *)
(***************************************************************************)
\* a variant whose spender loop is left at the first failed allowance read
RECURSIVE SequentialSpendersLeavingLoop(_, _, _, _, _, _)
SequentialSpendersLeavingLoop(inp, w, t, tk, bal, si) ==
  IF si > Len(inp.spenders) THEN << >>
  ELSE LET ans == AllowanceOf(inp.env, w, t.address, inp.spenders[si])
       IN  IF ans.ok
           THEN << ApprovalRecord(w, t.address, tk, inp.spenders[si], ans.val, bal) >>
                \o SequentialSpendersLeavingLoop(inp, w, t, tk, bal, si + 1)
           ELSE << >>

\* the spender loop of one address and token, from spender si on: one
\* awaited allowance read after the other, a record pushed for each that
\* answers, a warning for each that fails
RECURSIVE SequentialSpenders(_, _, _, _, _, _)
SequentialSpenders(inp, w, t, tk, bal, si) ==
  IF si > Len(inp.spenders) THEN << >>
  ELSE LET ans == AllowanceOf(inp.env, w, t.address, inp.spenders[si])
       IN  (IF ans.ok
            THEN << ApprovalRecord(w, t.address, tk, inp.spenders[si], ans.val, bal) >>
            ELSE << >>)
           \o SequentialSpenders(inp, w, t, tk, bal, si + 1)

\* the body of the token loop: contract, metadata and price, balance (0 when
\* the read fails), then the spenders; nothing when the contract cannot be
\* made
SequentialPair(inp, w, t) ==
  IF ContractThrows(inp.env, t.address) THEN << >>
  ELSE LET tk == ResolveToken(t, SymbolOf(inp.env, t.address),
                              DecimalsOf(inp.env, t.address))
           ans == BalanceOf(inp.env, w, t.address)
           bal == IF ans.ok THEN ans.val ELSE Zero
       IN  SequentialSpenders(inp, w, t, tk, bal, 1)

\* the loops over the addresses and, inside, the tokens, from pair k on
RECURSIVE SequentialPairs(_, _)
SequentialPairs(inp, k) ==
  IF k > Len(inp.addresses) * Len(inp.tokens) THEN << >>
  ELSE SequentialPair(inp, inp.addresses[((k - 1) \div Len(inp.tokens)) + 1],
                      inp.tokens[((k - 1) % Len(inp.tokens)) + 1])
       \o SequentialPairs(inp, k + 1)

\* checkApprovals of the sequential script: the collection it returns
SequentialCheckApprovals(inp) == SequentialPairs(inp, 1)

(***************************************************************************)
(* main() from its start: options, connection, lists, scan, display        *)
(***************************************************************************)
\* bound: the largest number of work items of a run of main()
MaxMainTasks == 3

\* provider.getNetwork(), per scenario
NetworkAnswers == << Ok(1), Ok(1), Ok(1), Err(0) >>
NetworkOf(e) == Cyc(NetworkAnswers, e)

\* the scenarios of the outside world of a run of main(): in 3 the network
\* does not answer, in 5 the block number does not
MainEnvs == { 2, 3, 4, 5 }

\* the lists main() loads when every list has entries
LoadedInputs ==
  { i \in BasicInputs \cup AdvancedInputs :
      i.env \in MainEnvs /\
      Len(i.addresses) * Len(i.tokens) * (IF i.mode = "basic" THEN Len(i.spenders) ELSE 1)
        <= MaxMainTasks }

\* the same with an address file or a token file without entries (in
\* advanced mode the token list is empty then: the scan of some tokens for no
\* wallet is left out)
EmptyListInputs ==
  { [i EXCEPT !.addresses = IF q[1] THEN << >> ELSE @,
              !.tokens = IF q[2] THEN << >> ELSE @] :
      i \in LoadedInputs,
      q \in { r \in BOOLEAN \X BOOLEAN : r[1] \/ r[2] } }
  \ { i \in { [i EXCEPT !.addresses = << >>] : i \in LoadedInputs } :
        i.mode = "advanced" }

MainInputs == LoadedInputs \cup EmptyListInputs

\* where a list can come from: the option that names one entry (it wins over
\* the file), the file, or neither
ListFrom(list) ==
  { "file" } \cup (IF Len(list) = 1 THEN { "option" } ELSE {})
             \cup (IF Len(list) = 0 THEN { "none" } ELSE {})

\* main() at its first statement
MainStarting(export, rpcUrl, addressFrom, tokenFrom) ==
  [MainScanning(export) EXCEPT !.at = "validate", !.rpcUrl = rpcUrl,
                               !.addressFrom = addressFrom, !.tokenFrom = tokenFrom]

MainInit ==
  /\ input \in MainInputs
  /\ main \in { MainStarting(q[1], q[2], q[3], q[4]) :
                  q \in BOOLEAN \X BOOLEAN \X ListFrom(input.addresses)
                          \X ListFrom(input.tokens) }
  /\ main.tokenFrom = "option" => input.tokens[1].price = Null
  /\ pc = "main"
  /\ ai = 1 /\ ti = 1 /\ bi = 0
  /\ tok = NoToken
  /\ balance = Zero
  /\ block = NoBlock
  /\ tasks = NoTasks
  /\ waveIds = {}
  /\ waveRejected = FALSE
  /\ waveNo = 0
  /\ results = << >>
  /\ completedTasks = 0
  /\ progress = NoProgress
  /\ nextTick = 0
  /\ now = 0
  /\ timerOn = FALSE
  /\ calls = << >>
  /\ resolved = {}

\* logger.error(...); process.exit(1)
ExitWithError(m) ==
  [m EXCEPT !.at = "exited", !.errors = @ + 1, !.exited = TRUE, !.exitCode = 1]

\* the checks of the options and of the RPC URL, then the provider is made
\* and asked for the network
MainValidates ==
  /\ pc = "main" /\ main.at = "validate"
  /\ IF main.addressFrom = "none" \/ main.tokenFrom = "none" \/ ~ main.rpcUrl
     THEN /\ main' = ExitWithError(main)
          /\ calls' = calls
     ELSE /\ main' = [main EXCEPT !.at = "connect"]
          /\ calls' = AddCall(calls, << "getNetwork" >>)
  /\ UNCHANGED << nextTick, input, pc, ai, ti, bi, tok, balance, block, tasks, waveIds,
                  waveRejected, waveNo, results, completedTasks, progress, now,
                  timerOn, resolved >>

\* the network has answered: the lists are loaded, whatever their lengths,
\* and the scan is called; a failure takes main() to its catch
MainConnected ==
  /\ pc = "main" /\ main.at = "connect"
  /\ IF NetworkOf(input.env).ok
     THEN /\ main' = [main EXCEPT !.at = "scan"]
          /\ pc' = "init"
     ELSE /\ main' = [main EXCEPT !.at = "catch"]
          /\ pc' = pc
  /\ UNCHANGED << nextTick, input, ai, ti, bi, tok, balance, block, tasks, waveIds,
                  waveRejected, waveNo, results, completedTasks, progress, now,
                  timerOn, calls, resolved >>

\* the catch of main(): one report, exit code 1
MainCatch ==
  /\ main.at = "catch" \/ (main.at = "scan" /\ pc = "threw")
  /\ main' = ExitWithError(main)
  /\ UNCHANGED << nextTick, input, pc, ai, ti, bi, tok, balance, block, tasks, waveIds,
                  waveRejected, waveNo, results, completedTasks, progress, now,
                  timerOn, calls, resolved >>

\* main() has come to its end and nothing is in flight: the process ends
\* with exit code 0
MainEnds ==
  /\ (main.at = "displayed" /\ ~ main.export) \/ main.at = "exported"
  /\ tasks = NoTasks
  /\ main' = [main EXCEPT !.at = "exited", !.exited = TRUE, !.exitCode = 0]
  /\ UNCHANGED << nextTick, input, pc, ai, ti, bi, tok, balance, block, tasks, waveIds,
                  waveRejected, waveNo, results, completedTasks, progress, now,
                  timerOn, calls, resolved >>

MainNext ==
  \/ MainValidates
  \/ MainConnected
  \/ MainCatch
  \/ Next
  \/ DisplayResults
  \/ ExportResults
  \/ MainEnds

MainSpec == MainInit /\ [][MainNext]_vars

(***************************************************************************)
(* Properties                                                              *)
(***************************************************************************)
\* the decimal digits of 2^256 - 1
MaxUint256Digits ==
  << 1,1,5,7,9,2,0,8,9,2,3,7,3,1,6,1,9,5,4,2,3,5,7,0,9,8,5,0,0,8,6,8,7,9,0,7,8,5,3,
     2,6,9,9,8,4,6,6,5,6,4,0,5,6,4,0,3,9,4,5,7,5,8,4,0,0,7,9,1,3,1,2,9,6,3,9,9,3,5 >>

\* the decimal digits of 2^255 and of 2^256 - 2
Pow255Digits ==
  << 5,7,8,9,6,0,4,4,6,1,8,6,5,8,0,9,7,7,1,1,7,8,5,4,9,2,5,0,4,3,4,3,9,5,3,9,2,6,6,
     3,4,9,9,2,3,3,2,8,2,0,2,8,2,0,1,9,7,2,8,7,9,2,0,0,3,9,5,6,5,6,4,8,1,9,9,6,8 >>
MaxMinus1Digits == [MaxUint256Digits EXCEPT ![Len(MaxUint256Digits)] = 4]

\* a < b for decimal strings without leading zeros
DecLess(a, b) ==
  \/ Len(a) < Len(b)
  \/ /\ Len(a) = Len(b)
     /\ \E i \in 1..Len(a) : a[i] < b[i] /\ \A j \in 1..(i - 1) : a[j] = b[j]

DecMin(a, b) == IF DecLess(a, b) THEN a ELSE b

Records == { results[i] : i \in 1..Len(results) }

\* C1: every record's exposed amount is the balance when the allowance is
\* 2^256 - 1 and the smaller of allowance and balance otherwise, so it never
\* exceeds the balance
ExposedIsMinOfAllowanceAndBalance ==
  \A r \in Records :
    /\ r.rawAllowance = MaxUint256Digits => r.rawExposedAmount = r.rawBalance
    /\ r.rawAllowance # MaxUint256Digits =>
         r.rawExposedAmount = DecMin(r.rawAllowance, r.rawBalance)
    /\ ~DecLess(r.rawBalance, r.rawExposedAmount)

\* the collection holds an infinite approval over a non-zero balance, an
\* allowance above the balance and an allowance below the balance
ExposedCasesRecorded ==
  /\ \E r \in Records : r.rawAllowance = MaxUint256Digits /\ r.rawBalance # << 0 >>
  /\ \E r \in Records : /\ r.rawAllowance # MaxUint256Digits
                        /\ DecLess(r.rawBalance, r.rawAllowance)
  /\ \E r \in Records : DecLess(r.rawAllowance, r.rawBalance)

\* C2: a record is flagged infinite exactly when its raw allowance is
\* 2^256 - 1
InfiniteIffMaxUint256 ==
  \A r \in Records : r.isInfiniteApproval <=> r.rawAllowance = MaxUint256Digits

\* the collection holds allowances 2^256 - 1, 2^256 - 2 and 2^255
HugeAllowancesRecorded ==
  /\ \E r \in Records : r.rawAllowance = MaxUint256Digits /\ r.isInfiniteApproval
  /\ \E r \in Records : r.rawAllowance = MaxMinus1Digits /\ ~r.isInfiniteApproval
  /\ \E r \in Records : r.rawAllowance = Pow255Digits /\ ~r.isInfiniteApproval

\* C3: completedTasks counts every work item exactly once, on the finally of
\* the items and the catch of the token loop together, and so never exceeds
\* totalTasks
CountedOncePerItem ==
  /\ completedTasks = Cardinality(resolved)
  /\ completedTasks <= TotalTasks

\* C4: when the scan returns, completedTasks equals totalTasks
ReturnsWithAllCounted == pc = "returned" => completedTasks = TotalTasks

\* C5: all work items in flight belong to one wave: no item of a wave starts
\* while an item of an earlier wave is unresolved
WaveBarrier == \A a, b \in DOMAIN tasks : tasks[a].wave = tasks[b].wave

\* C6: at most batchSize work items are in flight
AtMostBatchSizeInFlight == Cardinality(DOMAIN tasks) <= batchSize

\* the answers of the chain for a record's triple
AllowanceAnswerFor(r) ==
  AllowanceOf(input.env, r.walletAddress, r.tokenAddress, r.spenderAddress)
BalanceAnswerFor(r) == BalanceOf(input.env, r.walletAddress, r.tokenAddress)

HasRecord(w, t, s) ==
  \E r \in Records :
    r.walletAddress = w /\ r.tokenAddress = t /\ r.spenderAddress = s

\* the step in which the allowance read of work item id fails
AllowanceReadFails(id) ==
  /\ id \in DOMAIN tasks
  /\ Advanced => tasks[id].at = "allowance"
  /\ ~AllowanceOf(input.env, tasks[id].address, tasks[id].tokenAddress,
                  tasks[id].spender).ok
  /\ id \in DOMAIN tasks' => tasks'[id] # tasks[id]

\* the spenders of the log that work item id has still to check
SpendersLeft(id) ==
  SelectSeq(tasks[id].todo, LAMBDA s : s \notin tasks[id].processedSpenders)

\* C7: a step in which an allowance read fails neither rejects the wave nor
\* moves the scan nor touches any other work item in flight, and adds no
\* record; in basic mode the item is counted, in advanced mode the item goes
\* on with the next spender of its log that is left, and ends, counted, only
\* when none is left
FailedAllowanceReadAbortsNothing ==
  [][\A id \in DOMAIN tasks :
       AllowanceReadFails(id) =>
         /\ pc' = pc /\ ai' = ai /\ ti' = ti /\ bi' = bi
         /\ waveRejected' = waveRejected /\ waveIds' = waveIds
         /\ results' = results
         /\ \A j \in DOMAIN tasks \ { id } : j \in DOMAIN tasks' /\ tasks'[j] = tasks[j]
         /\ Basic => completedTasks' = completedTasks + 1
         /\ Advanced =>
              IF SpendersLeft(id) = << >>
              THEN id \notin DOMAIN tasks' /\ completedTasks' = completedTasks + 1
              ELSE /\ id \in DOMAIN tasks'
                   /\ tasks'[id].at = "allowance"
                   /\ tasks'[id].spender = Head(SpendersLeft(id))
                   /\ completedTasks' = completedTasks]_vars

\* after a failed allowance read of a pair's log, a later spender of the same
\* log has been recorded
LaterSpenderRecordedAfterFailure ==
  /\ Advanced /\ pc = "returned"
  /\ \E t \in 1..Len(input.tokens), w \in 1..Len(input.addresses) :
       LET ta == input.tokens[t].address
           wa == input.addresses[w]
           ev == EventsOf(input.env, wa, ta)
       IN  /\ ev.ok /\ << t, w >> \in resolved
           /\ \E i, j \in 1..Len(ev.val) :
                /\ i < j
                /\ ~AllowanceOf(input.env, wa, ta, ev.val[i]).ok
                /\ Calls(<< "allowance", ta, wa, ev.val[i] >>) >= 1
                /\ HasRecord(wa, ta, ev.val[j])

\* the scan has returned and nothing is in flight
RunOver == pc = "returned" /\ DOMAIN tasks = {}

OneRecordPerTriple ==
  pc = "returned" =>
    \A i, j \in 1..Len(results) :
      i # j =>
        << results[i].walletAddress, results[i].tokenAddress,
           results[i].spenderAddress >>
        # << results[j].walletAddress, results[j].tokenAddress,
             results[j].spenderAddress >>

\* every call of the run succeeds: the construction of each contract and
\* each read of symbol, decimals, balance and allowance
EveryCallSucceeds ==
  \A t \in 1..Len(input.tokens) :
    LET ta == input.tokens[t].address
    IN  /\ ~ContractThrows(input.env, ta)
        /\ SymbolOf(input.env, ta).ok /\ DecimalsOf(input.env, ta).ok
        /\ \A a \in 1..Len(input.addresses) :
             /\ BalanceOf(input.env, input.addresses[a], ta).ok
             /\ \A s \in 1..Len(input.spenders) :
                  AllowanceOf(input.env, input.addresses[a], ta, input.spenders[s]).ok

\* the number of work items of basic mode with the triple of item (a, t, s)
ItemsWithTripleOf(a, t, s) ==
  Cardinality({ q \in (1..Len(input.addresses)) \X (1..Len(input.tokens))
                      \X (1..Len(input.spenders)) :
                  /\ input.addresses[q[1]] = input.addresses[a]
                  /\ input.tokens[q[2]].address = input.tokens[t].address
                  /\ input.spenders[q[3]] = input.spenders[s] })

\* C10: when a run of basic mode in which every call succeeds has returned,
\* the collection has one record per work item, every triple of the
\* cross-product has a record carrying the allowance the chain answered, a
\* zero allowance included, and the allowance of each item was read once
BasicRunIsComplete ==
  Basic /\ EveryCallSucceeds /\ pc = "returned" =>
    /\ Len(results) = TotalTasks
    /\ \A a \in 1..Len(input.addresses), t \in 1..Len(input.tokens),
          s \in 1..Len(input.spenders) :
         LET wa == input.addresses[a]
             ta == input.tokens[t].address
             sp == input.spenders[s]
         IN  /\ \E r \in Records :
                  /\ r.walletAddress = wa /\ r.tokenAddress = ta
                  /\ r.spenderAddress = sp
                  /\ r.rawAllowance = BigIntToString(AllowanceOf(input.env, wa, ta, sp).val)
             /\ Calls(<< "allowance", ta, wa, sp >>) = ItemsWithTripleOf(a, t, s)

\* a run of basic mode in which every call succeeds has returned, with more
\* spenders than one wave holds and a record of allowance 0
CompleteRunWithZeroAllowance ==
  /\ Basic /\ EveryCallSucceeds /\ pc = "returned"
  /\ Len(input.spenders) > batchSize
  /\ \E r \in Records : r.rawAllowance = << 0 >>

\* the log of the pair (wa, ta) was queried and no work item of the pair is
\* in flight
PairScanned(wa, ta) ==
  /\ Calls(<< "queryFilter", ta, wa, block.startBlock, block.currentBlock >>) >= 1
  /\ \A id \in DOMAIN tasks :
       ~(tasks[id].address = wa /\ tasks[id].tokenAddress = ta)

\* C11: in advanced mode no record has a raw allowance of 0, and once the
\* work item of a pair has ended, every spender of its log whose allowance
\* read answered a non-zero value has a record
AdvancedRecordsExactlyNonZero ==
  Advanced =>
    /\ \A r \in Records : r.rawAllowance # << 0 >>
    /\ \A t \in 1..Len(input.tokens), w \in 1..Len(input.addresses) :
         LET ta == input.tokens[t].address
             wa == input.addresses[w]
             ev == EventsOf(input.env, wa, ta)
         IN  PairScanned(wa, ta) /\ ev.ok =>
               \A k \in 1..Len(ev.val) :
                 LET ans == AllowanceOf(input.env, wa, ta, ev.val[k])
                 IN  ans.ok /\ ans.val # Zero =>
                       \E r \in Records :
                         /\ r.walletAddress = wa /\ r.tokenAddress = ta
                         /\ r.spenderAddress = ev.val[k]
                         /\ r.rawAllowance = BigIntToString(ans.val)

\* a pair has been scanned whose log names a spender with allowance 0, read
\* and not recorded, and a spender with a non-zero allowance, recorded
ZeroSkippedNonZeroRecorded ==
  /\ Advanced
  /\ \E t \in 1..Len(input.tokens), w \in 1..Len(input.addresses) :
       LET ta == input.tokens[t].address
           wa == input.addresses[w]
           ev == EventsOf(input.env, wa, ta)
       IN  /\ PairScanned(wa, ta) /\ ev.ok
           /\ \E i, j \in 1..Len(ev.val) :
                /\ AllowanceOf(input.env, wa, ta, ev.val[i]).ok
                /\ AllowanceOf(input.env, wa, ta, ev.val[i]).val = Zero
                /\ Calls(<< "allowance", ta, wa, ev.val[i] >>) >= 1
                /\ ~HasRecord(wa, ta, ev.val[i])
                /\ HasRecord(wa, ta, ev.val[j])

\* the spenders of the log of work item id that the item has not processed
UnprocessedOfLog(id) ==
  SelectSeq(EventsOf(input.env, tasks[id].address, tasks[id].tokenAddress).val,
            LAMBDA s : s \notin tasks[id].processedSpenders)

\* the number of records of a triple
RecordsOf(wa, ta, sp) ==
  Cardinality({ i \in 1..Len(results) :
                  /\ results[i].walletAddress = wa /\ results[i].tokenAddress = ta
                  /\ results[i].spenderAddress = sp })

\* C12: a work item reads the allowance of each spender of its log once, in
\* the order of the first occurrences: whenever it turns to a spender, that
\* spender is the first of the log it has not processed, is marked as
\* processed and read once; the item ends its event loop only when no
\* spender of the log is left; no triple has more records than allowance
\* reads
SpendersOfLogCheckedOnce ==
  /\ [](Advanced =>
          \A id \in DOMAIN tasks :
            \A s \in tasks[id].processedSpenders :
              RecordsOf(tasks[id].address, tasks[id].tokenAddress, s)
                <= Calls(<< "allowance", tasks[id].tokenAddress, tasks[id].address, s >>))
  /\ [][Advanced =>
          \A id \in DOMAIN tasks :
            /\ (id \in DOMAIN tasks' /\ tasks'[id] # tasks[id]
                /\ tasks'[id].at = "allowance") =>
                 /\ UnprocessedOfLog(id) # << >>
                 /\ tasks'[id].spender = Head(UnprocessedOfLog(id))
                 /\ tasks'[id].processedSpenders =
                      tasks[id].processedSpenders \cup { Head(UnprocessedOfLog(id)) }
                 /\ calls' = AddCall(calls, << "allowance", tasks[id].tokenAddress,
                                               tasks[id].address,
                                               Head(UnprocessedOfLog(id)) >>)
            /\ (id \notin DOMAIN tasks' /\ tasks[id].at = "allowance") =>
                 UnprocessedOfLog(id) = << >>]_vars

\* a pair listed once has been scanned whose log names a spender twice: the
\* spender was read once and has one record
RepeatedSpenderCheckedOnce ==
  /\ Advanced
  /\ \E t \in 1..Len(input.tokens), w \in 1..Len(input.addresses) :
       LET ta == input.tokens[t].address
           wa == input.addresses[w]
           ev == EventsOf(input.env, wa, ta)
       IN  /\ PairScanned(wa, ta) /\ ev.ok
           /\ \A t2 \in 1..Len(input.tokens), w2 \in 1..Len(input.addresses) :
                (input.tokens[t2].address = ta /\ input.addresses[w2] = wa) =>
                  (t2 = t /\ w2 = w)
           /\ \E i, j \in 1..Len(ev.val) :
                /\ i < j /\ ev.val[i] = ev.val[j]
                /\ Calls(<< "allowance", ta, wa, ev.val[i] >>) = 1
                /\ RecordsOf(wa, ta, ev.val[i]) = 1

\* the step in which the log query of work item id fails
EventsQueryFails(id) ==
  /\ id \in DOMAIN tasks /\ Advanced
  /\ tasks[id].at = "events"
  /\ ~EventsOf(input.env, tasks[id].address, tasks[id].tokenAddress).ok
  /\ id \in DOMAIN tasks' => tasks'[id] # tasks[id]

\* C13: no record belongs to a pair whose log query fails; the step in which
\* a log query fails ends the work item and counts it, reads no allowance,
\* adds no record, rejects no wave, moves no loop and leaves every other
\* work item in flight as it is
FailedLogQueryIsEmptyLog ==
  /\ [](Advanced =>
          \A r \in Records : EventsOf(input.env, r.walletAddress, r.tokenAddress).ok)
  /\ [][\A id \in DOMAIN tasks :
          EventsQueryFails(id) =>
            /\ id \notin DOMAIN tasks'
            /\ completedTasks' = completedTasks + 1
            /\ results' = results /\ calls' = calls
            /\ pc' = pc /\ ti' = ti /\ bi' = bi
            /\ waveRejected' = waveRejected /\ waveIds' = waveIds
            /\ \A j \in DOMAIN tasks \ { id } :
                 j \in DOMAIN tasks' /\ tasks'[j] = tasks[j]]_vars

\* the log query of a pair has failed, the pair was counted and has no
\* record, and a pair scanned after it has a record
LaterPairRecordedAfterFailedQuery ==
  /\ Advanced /\ RunOver
  /\ \E t \in 1..Len(input.tokens), w \in 1..Len(input.addresses) :
       LET ta == input.tokens[t].address
           wa == input.addresses[w]
       IN  /\ PairScanned(wa, ta) /\ ~EventsOf(input.env, wa, ta).ok
           /\ << t, w >> \in resolved
           /\ \A r \in Records : ~(r.walletAddress = wa /\ r.tokenAddress = ta)
           /\ \E r \in Records :
                \E t2 \in 1..Len(input.tokens), w2 \in 1..Len(input.addresses) :
                  /\ r.tokenAddress = input.tokens[t2].address
                  /\ r.walletAddress = input.addresses[w2]
                  /\ (t2 > t \/ (t2 = t /\ w2 > w))

\* the read of symbol or the read of decimals of token ta fails
MetadataFails(ta) == ~SymbolOf(input.env, ta).ok \/ ~DecimalsOf(input.env, ta).ok

\* the metadata of a token whose reads failed, p being the caller's price
PlaceholderToken(p) == [symbol |-> "unknown", decimals |-> 18, price |-> p]

\* C14: when the read of symbol or decimals of a token fails, the scan goes
\* on with that token, to the balance read or the first wave, under the
\* placeholder symbol, 18 decimals and the caller's price as it is; every
\* work item of the token carries that metadata and every record of the
\* token the placeholder symbol and the caller's price
FailedMetadataIsPlaceholder ==
  /\ [](/\ \A id \in DOMAIN tasks :
             MetadataFails(tasks[id].tokenAddress) =>
               tasks[id].tok =
                 PlaceholderToken(TokenInfo(input.env, tasks[id].tokenAddress).price)
        /\ \A r \in Records :
             MetadataFails(r.tokenAddress) =>
               /\ r.tokenSymbol = "unknown"
               /\ r.price = TokenInfo(input.env, r.tokenAddress).price)
  /\ [][(pc = "await_meta" /\ pc' # pc /\ MetadataFails(TokenInfoNow.address)) =>
          /\ pc' \in { "await_balance", "await_wave" }
          /\ tok' = PlaceholderToken(TokenInfoNow.price)
          /\ completedTasks' = completedTasks]_vars

\* a token whose symbol was read as a stablecoin's while its decimals failed,
\* and for which the caller gave no price, has a record with the placeholder
\* symbol and no price
PlaceholderTokenRecorded ==
  \E r \in Records :
    /\ SymbolOf(input.env, r.tokenAddress).ok
    /\ SymbolOf(input.env, r.tokenAddress).val \in StableSymbols
    /\ ~DecimalsOf(input.env, r.tokenAddress).ok
    /\ TokenInfo(input.env, r.tokenAddress).price = Null
    /\ r.tokenSymbol = "unknown" /\ r.price = Null

\* the price of a token whose metadata was read: p is the caller's price
ResolvedPrice(p, symbol) ==
  IF p # Null THEN p
  ELSE IF symbol \in { "USDT", "USDC", "DAI", "BUSD", "TUSD", "USDK", "GUSD" }
       THEN Num(1)
       ELSE Null

\* C15: every work item and every record of a token whose symbol and decimals
\* were read carries the symbol read and, as price, the caller's price when
\* there is one, else 1 for the symbol of a listed stablecoin, else none
PriceResolution ==
  /\ \A id \in DOMAIN tasks :
       LET ta == tasks[id].tokenAddress
       IN  ~MetadataFails(ta) =>
             /\ tasks[id].tok.symbol = SymbolOf(input.env, ta).val
             /\ tasks[id].tok.decimals = DecimalsOf(input.env, ta).val
             /\ tasks[id].tok.price =
                  ResolvedPrice(TokenInfo(input.env, ta).price,
                                SymbolOf(input.env, ta).val)
  /\ \A r \in Records :
       ~MetadataFails(r.tokenAddress) =>
         /\ r.tokenSymbol = SymbolOf(input.env, r.tokenAddress).val
         /\ r.price = ResolvedPrice(TokenInfo(input.env, r.tokenAddress).price,
                                    r.tokenSymbol)

\* the collection holds a stablecoin record with the caller's price, a
\* stablecoin record with the inferred price 1, and a record of another
\* token without a price
AllPriceCasesRecorded ==
  /\ \E r \in Records :
       /\ ~MetadataFails(r.tokenAddress) /\ r.tokenSymbol = "USDT"
       /\ TokenInfo(input.env, r.tokenAddress).price = Num(2) /\ r.price = Num(2)
  /\ \E r \in Records :
       /\ ~MetadataFails(r.tokenAddress) /\ r.tokenSymbol = "USDT"
       /\ TokenInfo(input.env, r.tokenAddress).price = Null /\ r.price = Num(1)
  /\ \E r \in Records :
       /\ ~MetadataFails(r.tokenAddress) /\ r.tokenSymbol = "WETH"
       /\ r.price = Null

\* the decimals under which the records of token ta are formatted
DecimalsUsed(ta) == IF MetadataFails(ta) THEN 18 ELSE DecimalsOf(input.env, ta).val

\* C16: a record has no USD value exactly when it has no price; a USD value
\* is the exposed amount, taken as rawExposedAmount / 10^decimals, times the
\* price: value * 10^decimals = rawExposedAmount * price
UsdValueIsExposedTimesPrice ==
  \A r \in Records :
    /\ r.exposedValueUSD.null <=> r.price = Null
    /\ r.price # Null =>
         /\ r.exposedValueUSD.scale <= DecimalsUsed(r.tokenAddress)
         /\ StripLeadingZeros(
              r.exposedValueUSD.digits
                \o Zeros(DecimalsUsed(r.tokenAddress) - r.exposedValueUSD.scale))
            = MulDigits(r.rawExposedAmount, r.price.val)

\* the collection holds a record without price and USD value, a record whose
\* USD value has a fraction, and a record of price 2 over an exposed amount
\* of 2^256 - 1
UsdValueCasesRecorded ==
  /\ \E r \in Records : r.price = Null /\ r.exposedValueUSD.null
  /\ \E r \in Records :
       /\ r.price # Null /\ r.exposedValueUSD.scale > 0
       /\ r.exposedValueUSD.digits # << 0 >>
  /\ \E r \in Records :
       /\ r.price = Num(2) /\ r.rawExposedAmount = MaxUint256Digits
       /\ Len(r.exposedValueUSD.digits) > Len(MaxUint256Digits) - 18

\* displayResults has run
Displayed == main.at # "scan"

\* C17: the table has at most 100 rows, and a collection of at most 100
\* records is shown whole
DisplayCeiling ==
  Displayed =>
    /\ Len(main.table) <= 100
    /\ Len(results) <= 100 => main.table = results

\* a collection of more than 100 records was displayed in a table of more
\* than 50 and fewer than 100 rows
LargeCollectionCut ==
  Displayed /\ Len(results) > 100 /\ Len(main.table) \in 51..99

\* the records of a sequence with a known USD value, and the positions of
\* those whose value is above v
Priced(rs) == { i \in 1..Len(rs) : ~rs[i].exposedValueUSD.null }
Above(rs, v) ==
  { i \in Priced(rs) :
      DecLess(Scaled(v, 18), Scaled(rs[i].exposedValueUSD, 18)) }

\* the number of high-value rows of the table
HighRows == IF Cardinality(Priced(results)) < 50 THEN Cardinality(Priced(results)) ELSE 50

\* the first rows of the table are the records of highest known value (all
\* of them when fewer than 50 have one), largest first
HighValueRowsFirst ==
  Displayed /\ Len(results) > 100 =>
    /\ Len(main.table) >= HighRows
    /\ \A k \in 1..HighRows :
         /\ main.table[k] \in Records
         /\ ~main.table[k].exposedValueUSD.null
         /\ k > 1 => Above(<< main.table[k] >>, main.table[k - 1].exposedValueUSD) = {}
         /\ Cardinality(Above(results, main.table[k].exposedValueUSD)) < k
         /\ Cardinality({ j \in 1..HighRows : main.table[j] = main.table[k] })
              <= Cardinality({ i \in 1..Len(results) : results[i] = main.table[k] })

\* the rows after them are at most 50 infinite approvals of the collection
InfiniteRowsFollow ==
  Displayed /\ Len(results) > 100 =>
    /\ Len(main.table) - HighRows <= 50
    /\ \A k \in (HighRows + 1)..Len(main.table) :
         main.table[k] \in Records /\ main.table[k].isInfiniteApproval

\* no two rows of the table have the same wallet, token and spender
NoIdentityTwice ==
  Displayed /\ Len(results) > 100 =>
    \A i, j \in 1..Len(main.table) :
      i < j =>
        << main.table[i].walletAddress, main.table[i].tokenAddress,
           main.table[i].spenderAddress >>
        # << main.table[j].walletAddress, main.table[j].tokenAddress,
             main.table[j].spenderAddress >>

\* C18: for a collection of more than 100 records the table is the 50
\* records of highest known USD value, largest first, followed by at most 50
\* further infinite approvals, and no wallet, token and spender appear twice
TableIsHighValuesThenInfinite ==
  HighValueRowsFirst /\ InfiniteRowsFollow /\ NoIdentityTwice

\* the positions of the infinite approvals of the collection, and of the
\* first 50 of them
InfinitePositions == { i \in 1..Len(results) : results[i].isInfiniteApproval }
FirstInfinitePositions ==
  { i \in InfinitePositions :
      Cardinality({ j \in InfinitePositions : j <= i }) <= 50 }

IdentityShown(r) ==
  \E k \in 1..Len(main.table) :
    /\ main.table[k].walletAddress = r.walletAddress
    /\ main.table[k].tokenAddress = r.tokenAddress
    /\ main.table[k].spenderAddress = r.spenderAddress

\* C19 as stated: for a collection of more than 100 records every infinite
\* approval is in the table
EveryInfiniteApprovalShown ==
  Displayed /\ Len(results) > 100 =>
    \A i \in InfinitePositions : IdentityShown(results[i])

\* C19, amended: for a collection of more than 100 records the identity of
\* each of the first 50 infinite approvals, in collection order, is in the
\* table, and every row after the high-value rows is one of those 50
FirstFiftyInfiniteApprovalsShown ==
  Displayed /\ Len(results) > 100 =>
    /\ \A i \in FirstInfinitePositions : IdentityShown(results[i])
    /\ \A k \in (HighRows + 1)..Len(main.table) :
         \E i \in FirstInfinitePositions : main.table[k] = results[i]

\* a collection with more than 50 infinite approvals was displayed: the
\* table ends with one of the first 50 and lacks a later one
LaterInfiniteApprovalNotShown ==
  /\ Displayed /\ Len(results) > 100
  /\ Len(main.table) > HighRows
  /\ \E i \in FirstInfinitePositions : main.table[Len(main.table)] = results[i]
  /\ \E i \in InfinitePositions \ FirstInfinitePositions : ~IdentityShown(results[i])

\* the known USD values of the whole collection, 0 for a record without one
ValuesOrZero ==
  [i \in 1..Len(results) |->
     IF results[i].exposedValueUSD.null THEN Value(<< 0 >>, 0)
     ELSE results[i].exposedValueUSD]

\* the summary is about the whole collection
SummaryOfWholeCollection ==
  Displayed /\ Len(results) > 0 =>
    /\ main.summary.uniqueWallets
         = Cardinality({ results[i].walletAddress : i \in 1..Len(results) })
    /\ main.summary.uniqueTokens
         = Cardinality({ results[i].tokenAddress : i \in 1..Len(results) })
    /\ main.summary.uniqueSpenders
         = Cardinality({ results[i].spenderAddress : i \in 1..Len(results) })
    /\ main.summary.approvals = Len(results)
    /\ main.summary.infiniteApprovals = Cardinality(InfinitePositions)
    /\ main.summary.exposedValueCount = Cardinality(Priced(results))
    /\ main.summary.totalExposedValueUSD = SumValues(ValuesOrZero, 1, Len(results))

\* the csv has one row per record, in the order of the collection
CsvOfWholeCollection ==
  main.at = "exported" =>
    /\ Len(main.csv) = Len(results)
    /\ \A i \in 1..Len(results) :
         /\ main.csv[i][1] = results[i].walletAddress
         /\ main.csv[i][2] = results[i].tokenAddress
         /\ main.csv[i][4] = results[i].spenderAddress
         /\ main.csv[i][10] = results[i].isInfiniteApproval

\* C20: displayResults leaves the collection as it is, its summary is
\* computed over the whole collection, and the export writes one row per
\* record of the whole collection
TruncationIsDisplayOnly ==
  /\ [](SummaryOfWholeCollection /\ CsvOfWholeCollection)
  /\ [][main.at = "scan" /\ main'.at = "displayed" => results' = results]_vars

\* a collection of more than 100 records with infinite approvals and known
\* USD values was displayed in a shorter table and exported
LargeCollectionExported ==
  /\ main.at = "exported"
  /\ Len(results) > 100 /\ Len(main.table) < Len(results)
  /\ Len(main.table) > 0
  /\ main.summary.infiniteApprovals > 50
  /\ main.summary.exposedValueCount > 50

(***************************************************************************)
(* Properties of the progress reporter under the clock                     *)
(***************************************************************************)
\* a step that writes a status line
StatusEmitted == progress'.writes > progress.writes /\ progress'.out.kind = "status"

\* the calls updateProgress(true) are made in the catch of the token loop
\* and, in advanced mode, at the head of the token loop
ForcedCall == pc \in { "catch", "token" }

TickFired == timerOn /\ nextTick' # nextTick

RunEnded == pc \in { "returned", "threw" }

\* C23: once the run has ended the interval is cleared and no status line is
\* written any more, neither by the interval nor by a work item that
\* completes late
SilentAfterEnd ==
  [][ RunEnded => ~ timerOn /\ progress'.writes = progress.writes ]_vars

\* the part of C23 that holds: the interval is cleared when the run has ended
TickStoppedAtEnd == RunEnded => ~ timerOn

\* the part of C23 that holds: in basic mode nothing is written after the end
BasicSilentAfterEnd ==
  [][ RunEnded /\ input.mode = "basic" => progress'.writes = progress.writes ]_vars

\* C24: when the scan has ended after the interval was set, the final line
\* totalTasks/totalTasks 100% has been written, once, and it is the last
\* line of the progress output
FinalLineIsLast == pc = "returned" => progress.out = FinalLine(TotalTasks)

\* the part of C24 that holds: the final line is written once, by the finally
\* of the scan, on every path that set the interval
FinalLineOnce ==
  [][ /\ progress'.out.kind = "final" /\ progress'.writes > progress.writes
        => pc = "finally" /\ pc' = "returned"
      /\ pc = "returned" => pc' = "returned"
      /\ pc' = "returned" /\ pc # "returned"
        => progress'.out = FinalLine(TotalTasks) /\ progress'.writes = progress.writes + 1
      /\ pc' = "threw" => ~ timerOn /\ progress = NoProgress ]_vars

\* the part of C24 that holds: in basic mode the final line stays the last
BasicFinalLineIsLast ==
  pc = "returned" /\ input.mode = "basic" => progress.out = FinalLine(TotalTasks)

\* C25: the remaining time of a status line is the placeholder exactly when
\* no work item is counted; otherwise it is elapsed / completedTasks *
\* (totalTasks - completedTasks), shown in whole seconds below 60 s, in whole
\* minutes below 3600 s and in hours with one decimal from there on (written
\* here with products instead of quotients, r = rem / den seconds)
EtaOfStatusLine ==
  progress.out.kind = "status" =>
    LET line == progress.out
        c == line.completed
        rem == (progress.lastUpdate - progress.startTime) * (line.total - c)
        den == 1000 * c
        n == line.eta.n
    IN  /\ line.eta = Computing <=> c = 0
        /\ line.eta.unit = "computing" <=> c = 0
        /\ c > 0 =>
             /\ line.eta.unit = "s" <=> rem < 60 * den
             /\ line.eta.unit = "min" <=> rem >= 60 * den /\ rem < 3600 * den
             /\ line.eta.unit = "h" <=> rem >= 3600 * den
             /\ line.eta.unit = "s" => (n - 1) * den < rem /\ rem <= n * den
             /\ line.eta.unit = "min" =>
                  (n - 1) * 60 * den < rem /\ rem <= n * 60 * den
             /\ line.eta.unit = "h" =>
                  /\ 2 * (10 * rem - n * 3600 * den) <= 3600 * den
                  /\ 2 * (n * 3600 * den - 10 * rem) <= 3600 * den

\* a status line that gives the remaining time in minutes, more than one
EtaInMinutes ==
  /\ progress.out.kind = "status"
  /\ progress.out.eta.unit = "min"
  /\ progress.out.eta.n > 1

(***************************************************************************)
(* Properties of main()                                                    *)
(***************************************************************************)
\* main() is past its checks of the options and the configuration
Validated == pc # "main" \/ main.at # "validate"

\* the run was aborted by one report and exit code 1, before any chain call
\* and before any work item
AbortedAtOnce ==
  /\ main.exited /\ main.exitCode = 1 /\ main.errors = 1
  /\ calls = << >>
  /\ pc = "main" /\ tasks = NoTasks /\ resolved = {}

\* C26: if the RPC URL is missing, or the wallet list or the token list is
\* empty (no option, or a file without entries), the run is aborted before
\* any chain call and any work item, with one report and a non-zero exit code
ConfigErrorsAbort ==
  /\ Validated
  /\ ~ main.rpcUrl \/ input.addresses = << >> \/ input.tokens = << >>
  => AbortedAtOnce

\* the part of C26 that holds: a missing RPC URL and a missing wallet or
\* token option abort the run at once
MissingOptionsAbort ==
  /\ Validated
  /\ ~ main.rpcUrl \/ main.addressFrom = "none" \/ main.tokenFrom = "none"
  => AbortedAtOnce

\* the part of C26 that holds: no work item is executed for an empty list
NoWorkForEmptyList ==
  input.addresses = << >> \/ input.tokens = << >> => tasks = NoTasks /\ resolved = {}

\* what happens instead for a file without entries: the run ends with exit
\* code 0 and without a report, after chain calls
EmptyFileEndsWell ==
  /\ input.addresses = << >> \/ input.tokens = << >>
  /\ main.exited /\ main.exitCode = 0 /\ main.errors = 0
  /\ calls # << >>

(***************************************************************************)
(* Properties of the collection as a whole                                 *)
(***************************************************************************)
\* the metadata and the balance that the answers of the chain give a token
\* and a pair
TokenOf(t) ==
  ResolveToken(t, SymbolOf(input.env, t.address), DecimalsOf(input.env, t.address))
BalanceOrZero(w, t) ==
  IF BalanceOf(input.env, w, t.address).ok
  THEN BalanceOf(input.env, w, t.address).val ELSE Zero
RecordFor(w, t, s) ==
  ApprovalRecord(w, t.address, TokenOf(t), s,
                 AllowanceOf(input.env, w, t.address, s).val, BalanceOrZero(w, t))

\* the records that the inputs and the answers of the chain call for, in
\* basic mode: one per triple whose token contract can be made and whose
\* allowance read succeeds
BasicRecordsCalledFor ==
  { RecordFor(input.addresses[q[1]], input.tokens[q[2]], input.spenders[q[3]]) :
      q \in { r \in (1..Len(input.addresses)) \X (1..Len(input.tokens))
                      \X (1..Len(input.spenders)) :
                /\ ~ ContractThrows(input.env, input.tokens[r[2]].address)
                /\ AllowanceOf(input.env, input.addresses[r[1]],
                               input.tokens[r[2]].address, input.spenders[r[3]]).ok } }

\* in advanced mode, when every work item of a batch runs to its end: the
\* pairs of a token are worked on batch by batch up to the first batch with
\* an item that rejects, and every item that does not reject records the
\* spenders of its log whose allowance is read and is not zero
PairWorkedOn(wi, t) ==
  /\ BlockNumberOf(input.env).ok
  /\ ~ ContractThrows(input.env, t.address)
  /\ \A w2 \in 1..(BatchLo((wi + batchSize - 1) \div batchSize) - 1) :
       ~ FilterThrows(input.env, input.addresses[w2], t.address)
  /\ ~ FilterThrows(input.env, input.addresses[wi], t.address)
  /\ EventsOf(input.env, input.addresses[wi], t.address).ok

\* the spenders of a pair's log whose allowance is read and is not zero
SpendersRecorded(w, t) ==
  { s \in { EventsOf(input.env, w, t.address).val[k] :
              k \in DOMAIN EventsOf(input.env, w, t.address).val } :
      /\ AllowanceOf(input.env, w, t.address, s).ok
      /\ IsRecorded(AllowanceOf(input.env, w, t.address, s).val) }

AdvancedRecordsCalledFor ==
  UNION { { RecordFor(input.addresses[q[1]], input.tokens[q[2]], s) :
              s \in SpendersRecorded(input.addresses[q[1]], input.tokens[q[2]]) } :
          q \in { r \in (1..Len(input.addresses)) \X (1..Len(input.tokens)) :
                    PairWorkedOn(r[1], input.tokens[r[2]]) } }

RecordsCalledFor ==
  IF Basic THEN BasicRecordsCalledFor ELSE AdvancedRecordsCalledFor

\* C27: the set of records that the scan returns is the same for every order
\* in which the work items of a batch complete: it is the set that the
\* inputs and the answers of the chain call for
RecordSetDetermined == pc = "returned" => Records = RecordsCalledFor

\* the part of C27 that holds: in basic mode the returned set is determined
BasicRecordSetDetermined == pc = "returned" /\ Basic => Records = RecordsCalledFor

\* the part of C27 that holds: in advanced mode the returned set holds no
\* other records, and all of them once no work item is in flight any more
AdvancedRecordSetInTheEnd ==
  pc = "returned" /\ Advanced =>
    /\ Records \subseteq RecordsCalledFor
    /\ tasks = NoTasks => Records = RecordsCalledFor

\* both outcomes of one input: after a batch with an item that rejected, the
\* scan returns all the records called for, or returns fewer
ReturnedAllAfterRejection ==
  /\ pc = "returned" /\ waveRejected /\ progress.out.kind = "final"
  /\ input.env = 4 /\ input.addresses = << "w1", "w2", "w3" >> /\ Len(input.tokens) = 1
  /\ Records = RecordsCalledFor
ReturnedFewerAfterRejection ==
  /\ pc = "returned" /\ waveRejected /\ progress.out.kind = "final"
  /\ input.env = 4 /\ input.addresses = << "w1", "w2", "w3" >> /\ Len(input.tokens) = 1
  /\ Records # RecordsCalledFor

\* how often a token address is listed
TimesListed(t) == Cardinality({ i \in DOMAIN input.tokens : input.tokens[i].address = t })

\* how often symbol and decimals of a token address were read
MetadataReads(t) == << Calls(<< "symbol", t >>), Calls(<< "decimals", t >>) >>

\* C28: symbol and decimals of every token address of the run are read once
\* (not at all when the token contract cannot be made), however many
\* wallets there are and however often the address is listed
MetadataReadOncePerToken ==
  \A i \in DOMAIN input.tokens :
    LET t == input.tokens[i].address
    IN  /\ MetadataReads(t)[1] <= 1 /\ MetadataReads(t)[2] <= 1
        /\ pc = "returned" /\ ~ ContractThrows(input.env, t) => MetadataReads(t) = << 1, 1 >>

\* what holds instead: basic mode reads them once for every pair of a wallet
\* and an entry of the token list, advanced mode once for every entry of
\* the token list
MetadataReadOncePerVisit ==
  \A i \in DOMAIN input.tokens :
    LET t == input.tokens[i].address
        n == IF Basic THEN Len(input.addresses) * TimesListed(t) ELSE TimesListed(t)
    IN  /\ MetadataReads(t)[1] <= n /\ MetadataReads(t)[2] <= n
        /\ pc = "returned" /\ ~ ContractThrows(input.env, t) => MetadataReads(t) = << n, n >>

\* the enumeration of the cross-product by the loops of the scan: in basic
\* mode addresses, then tokens, then spenders; in advanced mode tokens, then
\* addresses, then the places of the pair's log
LogPlaces == Len(SpenderNames)
ScanPositions ==
  1..(IF Basic THEN Len(input.addresses) * Len(input.tokens) * Len(input.spenders)
      ELSE Len(input.tokens) * Len(input.addresses) * LogPlaces)

\* the address, token and spender at a position of the enumeration (no
\* spender at a place beyond the end of the log)
TripleAt(p) ==
  IF Basic
  THEN LET nt == Len(input.tokens)
           ns == Len(input.spenders)
       IN  << input.addresses[((p - 1) \div (nt * ns)) + 1],
              input.tokens[(((p - 1) \div ns) % nt) + 1].address,
              input.spenders[((p - 1) % ns) + 1] >>
  ELSE LET na == Len(input.addresses)
           t == input.tokens[((p - 1) \div (na * LogPlaces)) + 1].address
           w == input.addresses[(((p - 1) \div LogPlaces) % na) + 1]
           k == ((p - 1) % LogPlaces) + 1
           log == EventsOf(input.env, w, t).val
       IN  << w, t, IF k <= Len(log) THEN log[k] ELSE "" >>

\* the batch of the scan that the position belongs to, counted over the run
BatchAt(p) ==
  IF Basic
  THEN LET ns == Len(input.spenders)
       IN  ((p - 1) \div ns) * NumBatches(ns) + ((((p - 1) % ns) + batchSize) \div batchSize)
  ELSE LET na == Len(input.addresses)
       IN  ((p - 1) \div (na * LogPlaces)) * NumBatches(na)
             + (((((p - 1) \div LogPlaces) % na) + batchSize) \div batchSize)

\* the positions at which the work item of record r can stand
PositionsOf(r) ==
  { p \in ScanPositions :
      TripleAt(p) = << r.walletAddress, r.tokenAddress, r.spenderAddress >> }

\* the records from the k-th on can be given positions that rise from
\* record to record, above position prev
RECURSIVE RisingFrom(_, _)
RisingFrom(k, prev) ==
  IF k > Len(results) THEN TRUE
  ELSE LET later == { p \in PositionsOf(results[k]) : p > prev }
       IN  /\ later # {}
           /\ RisingFrom(k + 1, CHOOSE p \in later : \A q \in later : p <= q)

\* the same for the batches of the positions, which may stay the same from
\* record to record
RECURSIVE BatchesRisingFrom(_, _)
BatchesRisingFrom(k, prev) ==
  IF k > Len(results) THEN TRUE
  ELSE LET later == { BatchAt(p) : p \in PositionsOf(results[k]) } \ (0..(prev - 1))
       IN  /\ later # {}
           /\ BatchesRisingFrom(k + 1, CHOOSE b \in later : \A c \in later : b <= c)

\* C29: the collection that the scan returns, and main() hands to the
\* export, is in the order of the enumeration of the cross-product
CollectionInScanOrder == pc = "returned" => RisingFrom(1, 0)

\* the part of C29 that holds: in basic mode the records of an earlier batch
\* come before those of a later one
BasicCollectionInBatchOrder == Basic => BatchesRisingFrom(1, 0)

\* C30: the percentage of the status lines never goes down and stays within
\* 0..100: the last one written is at most the current
\* floor(100 * completedTasks / totalTasks) and at most 100
PercentRisesWithin100 ==
  /\ [](/\ 0 <= progress.lastProgress
        /\ progress.lastProgress <= Percent(completedTasks, TotalTasks)
        /\ progress.lastProgress <= 100
        /\ progress.out.kind = "status" => progress.out.percent \in 0..100)
  /\ [][progress'.lastProgress >= progress.lastProgress]_vars

\* the part of C30 that holds: the percentage never goes down and is at most
\* the current one
PercentRises ==
  /\ [](/\ 0 <= progress.lastProgress
        /\ progress.lastProgress <= Percent(completedTasks, TotalTasks))
  /\ [][progress'.lastProgress >= progress.lastProgress]_vars

\* the part of C30 that holds: in basic mode it stays within 0..100
BasicPercentWithin100 == Basic => progress.lastProgress \in 0..100

(***************************************************************************)
(* Properties of the collection after the scan has returned                *)
(***************************************************************************)
\* C31: once the scan function has returned the collection, no record is
\* appended to it, so that the display and the export see the same records
NoRecordAfterReturn ==
  /\ [][pc = "returned" => results' = results]_vars
  /\ [](main.at = "exported" /\ main.csv # << >> => Len(main.csv) = main.summary.approvals)

\* the part of C31 that holds: the table's summary and the csv are made of
\* the same records, and what was displayed is never taken from the
\* collection again
DisplayAndExportAgree ==
  /\ [](main.at = "exported" /\ main.csv # << >> => Len(main.csv) = main.summary.approvals)
  /\ [][pc = "returned" => Len(results') >= Len(results)
                           /\ SubSeq(results', 1, Len(results)) = results]_vars

\* the part of C31 that holds: in basic mode nothing is appended after the
\* return
BasicNoRecordAfterReturn ==
  [][pc = "returned" /\ Basic => results' = results]_vars

\* a record was appended after the collection had been displayed and
\* exported
RecordAfterExport ==
  /\ main.at \in { "exported", "exited" } /\ main.export
  /\ Len(results) > Len(main.csv)

(***************************************************************************)
(* Properties of the catch of the token loop                               *)
(***************************************************************************)
\* the ids of the work items of the pair or token that the loops are at
ItemsAtHand ==
  IF Basic THEN { << ai, ti, si >> : si \in 1..Len(input.spenders) }
  ELSE { << ti, wi >> : wi \in 1..Len(input.addresses) }

\* C32: in advanced mode the catch of the token loop leaves completedTasks
\* at (tokens gone through) * (wallets), wherever the failure came from; in
\* basic mode it adds the number of spenders, and is reached only when no
\* work item of the pair has been counted
CatchCompensates ==
  [][pc = "catch" =>
       /\ Advanced => completedTasks' = ti * Len(input.addresses)
       /\ Basic => /\ completedTasks' = completedTasks + Len(input.spenders)
                   /\ ItemsAtHand \cap (resolved \cup DOMAIN tasks) = {}]_vars

\* the part of C32 that holds: basic mode
BasicCatchCompensates ==
  [][pc = "catch" /\ Basic =>
       /\ completedTasks' = completedTasks + Len(input.spenders)
       /\ ItemsAtHand \cap (resolved \cup DOMAIN tasks) = {}
       /\ completedTasks' = ((ai - 1) * Len(input.tokens) + ti) * Len(input.spenders)]_vars

\* the part of C32 that holds: in advanced mode, a failure before the first
\* wave of a token, when every token before was counted once per wallet
AdvancedCatchBeforeFirstWave ==
  [][/\ pc = "catch" /\ Advanced
     /\ completedTasks = (ti - 1) * Len(input.addresses)
     => completedTasks' = ti * Len(input.addresses)]_vars

\* what the catch does in advanced mode, whatever was counted before
AdvancedCatchFillsUp ==
  [][pc = "catch" /\ Advanced =>
       /\ completedTasks' > completedTasks
       /\ completedTasks' % Len(input.addresses) = 0
       /\ completedTasks' - completedTasks <= Len(input.addresses)]_vars

(***************************************************************************)
(* The batched and the sequential basic checker                            *)
(***************************************************************************)
\* the positions of the enumeration whose work item yields a record, in
\* rising order
RecordingPositions ==
  LET yields(p) ==
        /\ ~ ContractThrows(input.env, TripleAt(p)[2])
        /\ AllowanceOf(input.env, TripleAt(p)[1], TripleAt(p)[2], TripleAt(p)[3]).ok
  IN  SelectSeq([p \in 1..(Len(input.addresses) * Len(input.tokens) * Len(input.spenders))
                   |-> p], yields)

\* how often record r stands in sequence rs at the places of batch b
TimesInBatch(rs, r, b) ==
  Cardinality({ j \in 1..Len(rs) : BatchAt(RecordingPositions[j]) = b /\ rs[j] = r })

\* C33: for the same inputs and answers the batched basic checker returns
\* the records of the sequential one: the sequential collection is in the
\* order of the cross-product, and the batched one is that collection with
\* the records of each batch in some order of their own
BatchedEqualsSequential ==
  pc = "returned" /\ Basic =>
    LET sq == << >> \o SequentialCheckApprovals(input)
        at == << >> \o RecordingPositions
    IN  /\ Len(sq) = Len(at)
        /\ \A k \in 1..Len(sq) :
             TripleAt(at[k]) = << sq[k].walletAddress, sq[k].tokenAddress,
                                  sq[k].spenderAddress >>
        /\ Len(results) = Len(sq)
        /\ Records = { sq[k] : k \in 1..Len(sq) }
        /\ \A k \in 1..Len(sq) :
             TimesInBatch(results, sq[k], BatchAt(at[k]))
               = TimesInBatch(sq, sq[k], BatchAt(at[k]))

\* the batched checker has returned a collection that differs from the
\* sequential one in the order within a batch, after an allowance read that
\* failed
BatchedPermutesSequential ==
  /\ pc = "returned" /\ Basic
  /\ results # SequentialCheckApprovals(input)
  /\ Len(results) >= 2
  /\ Len(results) < Len(input.addresses) * Len(input.tokens) * Len(input.spenders)

(***************************************************************************)
(* Termination of the scan                                                 *)
(***************************************************************************)
MaxFairTasks == 3

\* the inputs of the runs whose end is looked at: every failure environment,
\* few work items
FairInputs ==
  { i \in BasicInputs \cup AdvancedInputs :
      Len(i.addresses) * Len(i.tokens) * (IF i.mode = "basic" THEN Len(i.spenders) ELSE 1)
        <= MaxFairTasks }

FairInit ==
  /\ input \in FairInputs
  /\ pc = "init"
  /\ ai = 1 /\ ti = 1 /\ bi = 0
  /\ tok = NoToken
  /\ balance = Zero
  /\ block = NoBlock
  /\ tasks = NoTasks
  /\ waveIds = {}
  /\ waveRejected = FALSE
  /\ waveNo = 0
  /\ results = << >>
  /\ completedTasks = 0
  /\ progress = NoProgress
  /\ nextTick = 0
  /\ now = 0
  /\ timerOn = FALSE
  /\ calls = << >>
  /\ resolved = {}
  /\ main = MainScanning(FALSE)

\* every chain call eventually returns or fails and the event loop runs every
\* continuation that is ready: a step of the scan that can be taken is taken
FairSpec == FairInit /\ [][Next]_vars /\ WF_vars(Next)

\* C34: if every chain call eventually returns or fails, the scan eventually
\* returns its collection with the progress timer cleared, whatever fails
ScanReturns == <>(pc = "returned" /\ ~ timerOn)

\* once the timer is set, the scan returns its collection with the timer
\* cleared
StartedScanReturns == timerOn ~> (pc = "returned" /\ ~ timerOn)

\* the scan ends, by returning or by throwing, with the timer not set
ScanEnds == <>(pc \in { "returned", "threw" } /\ ~ timerOn)

\* the batched basic checker returns its collection with the timer cleared
BasicScanReturns == Basic => <>(pc = "returned" /\ ~ timerOn)

(***************************************************************************)
(* The balance of a wallet and token                                       *)
(***************************************************************************)
\* how often the pair of wallet w and token address ta is met by the loops
PairVisits(w, ta) ==
  Cardinality({ p \in (DOMAIN input.addresses) \X (DOMAIN input.tokens) :
                  input.addresses[p[1]] = w /\ input.tokens[p[2]].address = ta })

BalanceReads(w, ta) == Calls(<< "balanceOf", ta, w >>)

\* the records of one wallet and token carry one balance, read before them;
\* after a failed read it is 0, and so is the exposed amount
BalanceSharedByPair ==
  /\ \A r1, r2 \in Records :
       r1.walletAddress = r2.walletAddress /\ r1.tokenAddress = r2.tokenAddress
         => r1.rawBalance = r2.rawBalance /\ r1.balance = r2.balance
  /\ \A r \in Records :
       LET ans == BalanceOf(input.env, r.walletAddress, r.tokenAddress)
       IN  /\ BalanceReads(r.walletAddress, r.tokenAddress) >= 1
           /\ ans.ok => r.rawBalance = BigIntToString(ans.val)
           /\ ~ ans.ok =>
                /\ r.rawBalance = << 0 >> /\ r.rawExposedAmount = << 0 >>
                /\ r.balance.whole = << 0 >> /\ r.balance.frac \in { << >>, << 0 >> }
                /\ r.exposedAmount = r.balance

\* the balance is read once for every time the loops meet the pair, however
\* many spenders are checked for it
BalanceReadOncePerVisit ==
  \A i \in DOMAIN input.addresses : \A j \in DOMAIN input.tokens :
    LET w == input.addresses[i]
        ta == input.tokens[j].address
    IN  /\ BalanceReads(w, ta) <= PairVisits(w, ta)
        /\ pc = "returned" /\ Basic /\ ~ ContractThrows(input.env, ta)
             => BalanceReads(w, ta) = PairVisits(w, ta)

\* C35: all records of one wallet and token carry the same rawBalance: the
\* balance is read once per pair of wallet and token, before its spenders
\* are checked, and after a failed read every record of the pair carries
\* balance 0 and exposed amount 0
BalanceReadOncePerPair ==
  /\ BalanceSharedByPair
  /\ \A i \in DOMAIN input.addresses : \A j \in DOMAIN input.tokens :
       BalanceReads(input.addresses[i], input.tokens[j].address) <= 1

\* the same, for lists without a wallet or a token listed twice
BalanceReadOncePerListedPair ==
  (\A i \in DOMAIN input.addresses : \A j \in DOMAIN input.tokens :
     PairVisits(input.addresses[i], input.tokens[j].address) = 1)
    => BalanceReadOncePerPair

\* several records of one pair after a failed balance read
RecordsAfterFailedBalance ==
  /\ pc = "returned"
  /\ \E k1, k2 \in DOMAIN results :
       /\ k1 # k2
       /\ results[k1].walletAddress = results[k2].walletAddress
       /\ results[k1].tokenAddress = results[k2].tokenAddress
       /\ results[k1].spenderAddress # results[k2].spenderAddress
       /\ ~ BalanceOf(input.env, results[k1].walletAddress, results[k1].tokenAddress).ok

(***************************************************************************)
(* The block window of the advanced scan                                   *)
(***************************************************************************)
\* the block number has been read and the window computed
WindowSet == Advanced /\ pc \notin { "init", "await_block", "threw" }

\* the log queries made so far, as their call keys
LogQueries == { k \in DOMAIN calls : k[1] = "queryFilter" }

\* C36: in advanced mode the block window is fixed once, at the start of
\* the run, as [max(0, currentBlock - lookback), currentBlock], so that
\* 0 <= startBlock <= currentBlock for a lookback of 0 or more, and every
\* log query of the run, for whatever wallet and token, uses that window
BlockWindowFixedOnce ==
  /\ [](/\ Calls(<< "getBlockNumber" >>) <= 1
        /\ WindowSet =>
             /\ Calls(<< "getBlockNumber" >>) = 1
             /\ block.currentBlock = BlockNumberOf(input.env).val
             /\ block.startBlock
                  = (IF block.currentBlock - input.lookbackBlocks > 0
                     THEN block.currentBlock - input.lookbackBlocks ELSE 0)
             /\ 0 <= block.startBlock /\ block.startBlock <= block.currentBlock
        /\ \A k \in LogQueries :
             WindowSet /\ k[4] = block.startBlock /\ k[5] = block.currentBlock)
  /\ [][WindowSet => block' = block]_vars

\* the scan has returned after log queries for two pairs, with a lookback
\* that reaches behind block 0
WindowClampedAndShared ==
  /\ Advanced /\ pc = "returned"
  /\ input.lookbackBlocks > block.currentBlock /\ block.startBlock = 0
  /\ Cardinality(LogQueries) >= 2

\* the same with a lookback inside the chain
WindowInsideAndShared ==
  /\ Advanced /\ pc = "returned"
  /\ block.startBlock > 0 /\ block.startBlock < block.currentBlock
  /\ Cardinality(LogQueries) >= 2
====
